---------------------------- MODULE Spec2Model ----------------------------
(***************************************************************************)
(* A model of valhalla-rs: the GraphId and LiveTraffic codecs, the live    *)
(* traffic tile writer, the graph tile speed accessors and the shared      *)
(* ownership of the memory mapped archives.                                *)
(*                                                                         *)
(* A 64-bit word is modelled as the set of the positions of its set bits   *)
(* (a subset of 0..63), so that shifts and masks keep their width and a    *)
(* 46-bit identifier or a 44-bit traffic record never overflows the model  *)
(* checker's integers.                                                     *)
(***************************************************************************)
EXTENDS Integers, Sequences, FiniteSets, TLC

VARIABLES
    gidIn,      \* GraphId codec: the (level, tileid, id) triple handed to from_parts
    gidOut,     \* GraphId codec: what from_parts returned (<<>> before the call)
    ltIn,       \* LiveTraffic codec: the constructor call and its arguments
    ltOut,      \* LiveTraffic codec: the record built (<<>> before the call)
    graph,      \* graph tile: the static DirectedEdge records, by edge index
    trafficLoaded, \* whether the tileset has a traffic archive
    hdr,        \* traffic tile: the TrafficTileHeader in the traffic mmap
    speeds,     \* traffic tile: the TrafficSpeed records in the traffic mmap, by edge index
    res,        \* the last tile operation called, its arguments and what it returned
    shadow,     \* what the callers last asked each traffic location to hold
    pc,         \* concurrent use: for each thread, the traffic call it is inside
    supplied,   \* concurrent use: for each edge, the records handed to writes so far
    written,    \* concurrent use: for each edge, whether a write to it has returned
    lastRead,   \* concurrent use: the edge and result of the last edge_traffic to return
    readers,        \* ownership: live GraphReader handles of the one tileset
    tileRefs,       \* ownership: for each graph tile object, its live GraphTile handles
    trafficHandles, \* ownership: live TrafficTile handles
    tilesTarRefs,   \* ownership: strong count of the tiles archive
    trafficTarRefs, \* ownership: strong count of the traffic archive
    tilesMapped,    \* ownership: whether the tiles archive is still mapped
    trafficMapped,  \* ownership: whether the traffic archive is still mapped
    ownRes,         \* ownership: the last read made through a tile handle
    cfg,        \* tileset: the state of the two configured archives, and the build
    reader,     \* tileset: what GraphReader::new returned
    rdOut,      \* tileset: the last call on the reader or one of its tiles, and its result
    actIn,      \* actor: the endpoint called and the format its request asks for
    actOut      \* actor: what the endpoint returned

gidVars == <<gidIn, gidOut>>
ltVars == <<ltIn, ltOut>>
tileVars == <<graph, trafficLoaded, hdr, speeds, res, shadow>>
concVars == <<pc, supplied, written, lastRead>>
ownVars == <<readers, tileRefs, trafficHandles, tilesTarRefs, trafficTarRefs,
             tilesMapped, trafficMapped, ownRes>>
rdVars == <<cfg, reader, rdOut>>
actVars == <<actIn, actOut>>
vars == <<gidVars, ltVars, tileVars, concVars, ownVars, rdVars, actVars>>
\* what the operations of each component leave alone
notGid == <<ltVars, tileVars, concVars, ownVars, rdVars, actVars>>
notLt == <<gidVars, tileVars, concVars, ownVars, rdVars, actVars>>
notTile == <<gidVars, ltVars, concVars, ownVars, rdVars, actVars>>
notConc == <<gidVars, ltVars, ownVars, rdVars, actVars>>
notOwn == <<gidVars, ltVars, tileVars, concVars, rdVars, actVars>>
notRd == <<gidVars, ltVars, tileVars, concVars, ownVars, actVars>>
notAct == <<gidVars, ltVars, tileVars, concVars, ownVars, rdVars>>

---------------------------------------------------------------------------
(* Option<T>: None is the empty tuple, Some(x) the one-element tuple.      *)
None == <<>>
Some(x) == <<x>>

(* 64-bit words as sets of bit positions.                                  *)
WordBits == 0..63
\* the word holding the natural number n (n < 2^31)
U64(n) == {b \in 0..30 : (n \div (2 ^ b)) % 2 = 1}
\* w << k on 64 bits: bits shifted past bit 63 are lost
Shl(w, k) == {b + k : b \in w} \cap WordBits
\* a | b
BitOr(a, b) == a \cup b
\* the value of the len-bit field of w that starts at bit lo (len <= 30)
RECURSIVE Field(_, _, _)
Field(w, lo, len) ==
    IF len = 0 THEN 0
    ELSE (IF lo \in w THEN 1 ELSE 0) + 2 * Field(w, lo + 1, len - 1)
\* u8 >> 1
Shr1(n) == n \div 2

---------------------------------------------------------------------------
(* GraphId codec                                                           *)

\* valhalla::baldr::GraphId(tileid, level, id), reached through ffi::from_parts:
\* throws when a field does not fit, packs level:3 | tileid:22 | id:21 otherwise
ffi_from_parts(level, tileid, id) ==
    IF level > 7 \/ tileid > 4194303 \/ id > 2097151
    THEN [ok |-> FALSE, value |-> {}]
    ELSE [ok |-> TRUE,
          value |-> BitOr(U64(level), BitOr(Shl(U64(tileid), 3), Shl(U64(id), 25)))]

GraphId_level(g) == Field(g, 0, 3)
GraphId_tileid(g) == Field(g, 3, 22)
GraphId_id(g) == Field(g, 25, 21)
\* a default id one bit short, 0x1fffffffffff
GraphId_default_45_bits == 0..44
\* `valhalla::baldr::kInvalidGraphId`, 0x3fffffffffff
GraphId_default == 0..45

\* a from_parts that falls back to the default id instead of returning None
GraphId_from_parts_or_default(level, tileid, id) ==
    LET r == ffi_from_parts(level, tileid, id)
    IN IF r.ok THEN Some(r.value) ELSE Some(GraphId_default)

\* GraphId::from_parts: ffi::from_parts(level, tileid, id).ok()
GraphId_from_parts(level, tileid, id) ==
    LET r == ffi_from_parts(level, tileid, id)
    IN IF r.ok THEN Some(r.value) ELSE None

\* u32 arguments tried: the field limits, their neighbours, and the test's id
LevelSamples == {0, 1, 2, 7, 8, 9, 2147483647}
TileSamples == {0, 1, 838852, 4194302, 4194303, 4194304, 4194305, 2147483647}
IdSamples == {0, 1, 161285, 2097150, 2097151, 2097152, 2097153, 2147483647}

GidIdle == gidIn = <<>> /\ gidOut = <<>>
LtIdle == ltIn = <<>> /\ ltOut = <<>>
TileIdle ==
    /\ graph = <<>> /\ trafficLoaded = FALSE /\ hdr = <<>>
    /\ speeds = <<>> /\ res = <<>> /\ shadow = <<>>
ConcIdle == pc = <<>> /\ supplied = <<>> /\ written = <<>> /\ lastRead = <<>>
OwnIdle ==
    /\ readers = 0 /\ tileRefs = <<>> /\ trafficHandles = 0
    /\ tilesTarRefs = 0 /\ trafficTarRefs = 0
    /\ tilesMapped = FALSE /\ trafficMapped = FALSE /\ ownRes = <<>>

RdIdle == cfg = <<>> /\ reader = <<>> /\ rdOut = <<>>
ActIdle == actIn = <<>> /\ actOut = <<>>

InitGraphId ==
    /\ gidIn \in LevelSamples \X TileSamples \X IdSamples
    /\ gidOut = <<>>
    /\ LtIdle /\ TileIdle /\ ConcIdle /\ OwnIdle /\ RdIdle /\ ActIdle

\* one call of GraphId::from_parts
FromParts ==
    /\ gidOut = <<>>
    /\ gidOut' = <<GraphId_from_parts(gidIn[1], gidIn[2], gidIn[3])>>
    /\ UNCHANGED <<gidIn, notGid>>

\* the caller takes another triple
NextTriple ==
    /\ gidOut # <<>>
    /\ gidIn' \in LevelSamples \X TileSamples \X IdSamples
    /\ gidOut' = <<>>
    /\ UNCHANGED notGid

NextGraphId == FromParts \/ NextTriple

SpecGraphId == InitGraphId /\ [][NextGraphId]_vars

GidValid == gidIn[1] < 8 /\ gidIn[2] < 4194304 /\ gidIn[3] < 2097152

\* C1: from_parts(l, t, i) returns an id with level() = l, tileid() = t and
\* id() = i when l < 8, t < 2^22 and i < 2^21, and returns None for every
\* triple that violates one of the three bounds.
C1_FromPartsRoundTrip ==
    gidOut # <<>> =>
        IF GidValid
        THEN /\ gidOut[1] # None
             /\ GraphId_level(gidOut[1][1]) = gidIn[1]
             /\ GraphId_tileid(gidOut[1][1]) = gidIn[2]
             /\ GraphId_id(gidOut[1][1]) = gidIn[3]
        ELSE gidOut[1] = None

C1_Witness ==
    /\ gidIn = <<2, 838852, 161285>>
    /\ gidOut # <<>>
    /\ gidOut[1] # None
    /\ GraphId_tileid(gidOut[1][1]) = 838852

---------------------------------------------------------------------------
(* LiveTraffic codec                                                       *)

\* LiveTraffic::UNKNOWN = Self(0)
LiveTraffic_UNKNOWN == {}
\* LiveTraffic::CLOSED = Self(255u64 << 28)
LiveTraffic_CLOSED == Shl(U64(255), 28)

\* a constructor that stores the overall speed unencoded (no >> 1)
LiveTraffic_from_segmented_speeds_unshifted(overall_speed, subsegment_speeds, breakpoints) ==
    BitOr(U64(overall_speed),
    BitOr(Shl(U64(Shr1(subsegment_speeds[1])), 7),
    BitOr(Shl(U64(Shr1(subsegment_speeds[2])), 14),
    BitOr(Shl(U64(Shr1(subsegment_speeds[3])), 21),
    BitOr(Shl(U64(breakpoints[1]), 28),
          Shl(U64(breakpoints[2]), 36))))))

\* LiveTraffic::from_segmented_speeds
LiveTraffic_from_segmented_speeds(overall_speed, subsegment_speeds, breakpoints) ==
    LET overall_encoded == U64(Shr1(overall_speed))
        speed1_encoded == U64(Shr1(subsegment_speeds[1]))
        speed2_encoded == U64(Shr1(subsegment_speeds[2]))
        speed3_encoded == U64(Shr1(subsegment_speeds[3]))
        bp1 == U64(breakpoints[1])
        bp2 == U64(breakpoints[2])
    IN BitOr(overall_encoded,
       BitOr(Shl(speed1_encoded, 7),
       BitOr(Shl(speed2_encoded, 14),
       BitOr(Shl(speed3_encoded, 21),
       BitOr(Shl(bp1, 28),
             Shl(bp2, 36))))))

\* a constructor that leaves breakpoint1 at 0
LiveTraffic_from_uniform_speed_no_breakpoint(speed) ==
    LiveTraffic_from_segmented_speeds(speed, <<speed, 0, 0>>, <<0, 0>>)

\* a constructor that rounds an odd speed up instead of down
LiveTraffic_from_uniform_speed_round_up(speed) ==
    LET up == IF speed < 255 THEN speed + 1 ELSE speed
    IN LiveTraffic_from_segmented_speeds(up, <<up, 0, 0>>, <<255, 0>>)

\* LiveTraffic::from_uniform_speed
LiveTraffic_from_uniform_speed(speed) ==
    LiveTraffic_from_segmented_speeds(speed, <<speed, 0, 0>>, <<255, 0>>)

\* the fields of valhalla::baldr::TrafficSpeed
overall_encoded_speed(r) == Field(r, 0, 7)
encoded_speed1(r) == Field(r, 7, 7)
encoded_speed2(r) == Field(r, 14, 7)
encoded_speed3(r) == Field(r, 21, 7)
breakpoint1(r) == Field(r, 28, 8)
breakpoint2(r) == Field(r, 36, 8)
\* the overall speed in km/h: the encoded speed is the speed divided by 2
get_overall_speed(r) == 2 * overall_encoded_speed(r)

U8 == 0..255
\* u8 arguments tried for the segmented constructor: both parities, the
\* smallest and the largest values
SegSamples == {0, 1, 73, 254, 255}

UniformCalls == {[kind |-> "uniform", overall |-> s, sub |-> <<s, 0, 0>>, bp |-> <<255, 0>>] : s \in U8}
SegmentedCalls ==
    [kind : {"segmented"}, overall : SegSamples,
     sub : SegSamples \X SegSamples \X SegSamples, bp : SegSamples \X SegSamples]

InitCodec ==
    /\ ltIn \in UniformCalls \cup SegmentedCalls
    /\ ltOut = <<>>
    /\ GidIdle /\ TileIdle /\ ConcIdle /\ OwnIdle /\ RdIdle /\ ActIdle

\* one call of LiveTraffic::from_uniform_speed
FromUniformSpeed ==
    /\ ltOut = <<>>
    /\ ltIn.kind = "uniform"
    /\ ltOut' = <<LiveTraffic_from_uniform_speed(ltIn.overall)>>
    /\ UNCHANGED <<ltIn, notLt>>

\* one call of LiveTraffic::from_segmented_speeds
FromSegmentedSpeeds ==
    /\ ltOut = <<>>
    /\ ltIn.kind = "segmented"
    /\ ltOut' = <<LiveTraffic_from_segmented_speeds(ltIn.overall, ltIn.sub, ltIn.bp)>>
    /\ UNCHANGED <<ltIn, notLt>>

NextCodec == FromUniformSpeed \/ FromSegmentedSpeeds

SpecCodec == InitCodec /\ [][NextCodec]_vars

\* C9: for every s in 0..255 the decoded overall speed of from_uniform_speed(s)
\* is s when s is even and s - 1 when s is odd.
C9_UniformSpeedRoundTrip ==
    (ltOut # <<>> /\ ltIn.kind = "uniform") =>
        get_overall_speed(ltOut[1]) =
            (IF ltIn.overall % 2 = 0 THEN ltIn.overall ELSE ltIn.overall - 1)

C9_Witness ==
    /\ ltOut # <<>>
    /\ ltIn.kind = "uniform"
    /\ ltIn.overall = 73
    /\ get_overall_speed(ltOut[1]) = 72

\* C10: from_segmented_speeds(o, [s1, s2, s3], [b1, b2]) has o div 2 in bits
\* 0-6, s1 div 2 in bits 7-13, s2 div 2 in bits 14-20, s3 div 2 in bits 21-27,
\* b1 in bits 28-35, b2 in bits 36-43 and bits 44-63 zero; UNKNOWN is all zero
\* and CLOSED has breakpoint1 = 255 and every other field 0.
C10_SegmentedLayout ==
    /\ LiveTraffic_UNKNOWN = {}
    /\ breakpoint1(LiveTraffic_CLOSED) = 255
    /\ LiveTraffic_CLOSED \subseteq 28..35
    /\ (ltOut # <<>> /\ ltIn.kind = "segmented") =>
           /\ overall_encoded_speed(ltOut[1]) = ltIn.overall \div 2
           /\ encoded_speed1(ltOut[1]) = ltIn.sub[1] \div 2
           /\ encoded_speed2(ltOut[1]) = ltIn.sub[2] \div 2
           /\ encoded_speed3(ltOut[1]) = ltIn.sub[3] \div 2
           /\ breakpoint1(ltOut[1]) = ltIn.bp[1]
           /\ breakpoint2(ltOut[1]) = ltIn.bp[2]
           /\ ltOut[1] \cap (44..63) = {}

C10_Witness ==
    /\ ltOut # <<>>
    /\ ltIn.kind = "segmented"
    /\ ltIn.overall = 255
    /\ ltIn.sub = <<1, 254, 73>>
    /\ ltIn.bp = <<255, 1>>
    /\ ltOut[1] = (0..6) \cup (14..20) \cup {23, 26} \cup (28..36)

\* C30: for every s in 0..255, from_uniform_speed(s) is never UNKNOWN, since
\* its breakpoint1 is 255, and it is CLOSED exactly when s is 0 or 1.
C30_UniformNeverUnknown ==
    (ltOut # <<>> /\ ltIn.kind = "uniform") =>
        /\ ltOut[1] # LiveTraffic_UNKNOWN
        /\ breakpoint1(ltOut[1]) = 255
        /\ ltOut[1] = LiveTraffic_CLOSED <=> ltIn.overall \in {0, 1}

\* from_uniform_speed(1) gave the CLOSED record
C30_Witness ==
    /\ ltOut # <<>>
    /\ ltIn.kind = "uniform"
    /\ ltIn.overall = 1
    /\ ltOut[1] = LiveTraffic_CLOSED
    /\ ltOut[1] # LiveTraffic_UNKNOWN

---------------------------------------------------------------------------
(* Traffic tile writer                                                     *)

\* the number of directed edges of the modelled tile
EdgeCount == 2
EdgeIndexes == 0..(EdgeCount - 1)
\* u32 edge indexes tried: every edge of the tile and two indexes past its end
IndexSamples == 0..(EdgeCount + 1)
\* the id of the modelled tile
TileId == ffi_from_parts(2, 838852, 0).value

\* live traffic records written by the callers: the two sentinels, the test's
\* uniform and segmented records, and a record with overall speed 0 whose
\* breakpoint1 is not 255
TrafficSamples ==
    {LiveTraffic_UNKNOWN, LiveTraffic_CLOSED,
     LiveTraffic_from_uniform_speed(72),
     LiveTraffic_from_segmented_speeds(72, <<1, 2, 3>>, <<127, 128>>),
     LiveTraffic_from_segmented_speeds(1, <<72, 0, 0>>, <<100, 0>>)}
\* unix timestamps and spare values written by the callers
TimeSamples == {0, 101, 1750000000}
SpareSamples == {0, 999}

\* ffi::TrafficTile::last_update / spare / edge_count: read the header
ffi_last_update(h) == h.last_update
ffi_spare(h) == h.spare
ffi_edge_count(h) == h.edge_count

\* ffi::edge_traffic: the record at edge_index, or an exception past the end
ffi_edge_traffic(h, sp, edge_index) ==
    IF edge_index < h.edge_count
    THEN [ok |-> TRUE, value |-> sp[edge_index]]
    ELSE [ok |-> FALSE, value |-> {}]

\* ffi::write_edge_traffic: one 64-bit store into the mmap, or an exception
\* past the end
ffi_write_edge_traffic(h, sp, edge_index, traffic) ==
    IF edge_index < h.edge_count
    THEN [ok |-> TRUE, speeds |-> [sp EXCEPT ![edge_index] = traffic]]
    ELSE [ok |-> FALSE, speeds |-> sp]

ffi_write_last_update(h, unix_timestamp) == [h EXCEPT !.last_update = unix_timestamp]
ffi_write_spare(h, spare) == [h EXCEPT !.spare = spare]

\* a clear that wipes the whole header area after the tile id
ffi_clear_traffic_whole_header(h, sp) ==
    [hdr |-> [h EXCEPT !.last_update = 0, !.spare = 0],
     speeds |-> [e \in DOMAIN sp |-> LiveTraffic_UNKNOWN]]

\* ffi::TrafficTile::clear_traffic: "Clears live traffic information in the
\* tile and sets the last update time to 0. The spare field is left unchanged."
ffi_clear_traffic(h, sp) ==
    [hdr |-> [h EXCEPT !.last_update = 0],
     speeds |-> [e \in DOMAIN sp |-> LiveTraffic_UNKNOWN]]

\* TrafficTile::edge_traffic
TrafficTile_edge_traffic(h, sp, edge_index) ==
    LET r == ffi_edge_traffic(h, sp, edge_index)
    IN IF r.ok THEN Some(r.value) ELSE None

\* a writer that clamps an index past the end to the last edge
TrafficTile_write_edge_traffic_clamped(h, sp, edge_index, traffic) ==
    ffi_write_edge_traffic(h, sp,
        IF edge_index < h.edge_count THEN edge_index ELSE h.edge_count - 1,
        traffic).speeds

\* a writer that hands the record over through a 32-bit integer
TrafficTile_write_edge_traffic_u32(h, sp, edge_index, traffic) ==
    ffi_write_edge_traffic(h, sp, edge_index, traffic \cap (0..31)).speeds

\* TrafficTile::write_edge_traffic: the error of the ffi call is dropped
TrafficTile_write_edge_traffic(h, sp, edge_index, traffic) ==
    ffi_write_edge_traffic(h, sp, edge_index, traffic).speeds

\* what TrafficTile::write_edge_traffic hands back to its caller: the function
\* returns (), the Result of the ffi call having been dropped by `let _ =`
TrafficTile_write_edge_traffic_returns(h, sp, edge_index, traffic) ==
    LET r == ffi_write_edge_traffic(h, sp, edge_index, traffic)
    IN IF r.ok THEN <<>> ELSE <<>>

\* the static DirectedEdge speeds of the tile's edges (km/h; 0: not
\* available); the default speed of an edge is never 0
EdgeProfiles ==
    <<[speed |-> 50, truck_speed |-> 0, free_flow_speed |-> 0,
       constrained_flow_speed |-> 0, predicted_speed |-> 0],
      [speed |-> 90, truck_speed |-> 80, free_flow_speed |-> 100,
       constrained_flow_speed |-> 60, predicted_speed |-> 35],
      [speed |-> 30, truck_speed |-> 0, free_flow_speed |-> 40,
       constrained_flow_speed |-> 0, predicted_speed |-> 0]>>
\* the modelled graph tile: edge e has profile e mod 3 (an edge without flow
\* data, as in the test tileset, next to an edge with all of it)
TileGraph == [e \in EdgeIndexes |-> EdgeProfiles[(e % 3) + 1]]

\* the traffic tile as the archive holds it before any write
FreshHeader ==
    [tile_id |-> TileId, last_update |-> 0, spare |-> 0, edge_count |-> EdgeCount]
FreshSpeeds == [e \in EdgeIndexes |-> LiveTraffic_UNKNOWN]
FreshShadow == [last_update |-> 0, spare |-> 0, speeds |-> FreshSpeeds]

\* a tileset with both archives, and its traffic tile
InitTraffic ==
    /\ graph = TileGraph
    /\ trafficLoaded = TRUE
    /\ hdr = FreshHeader
    /\ speeds = FreshSpeeds
    /\ res = [args |-> <<>>, op |-> "traffic_tile", idx |-> 0, val |-> TileId]
    /\ shadow = FreshShadow
    /\ GidIdle /\ LtIdle /\ ConcIdle /\ OwnIdle /\ RdIdle /\ ActIdle

\* traffic_tile.write_edge_traffic(i, t)
WriteEdgeTraffic ==
    /\ trafficLoaded
    /\ \E i \in IndexSamples, t \in TrafficSamples :
        /\ speeds' = TrafficTile_write_edge_traffic(hdr, speeds, i, t)
        /\ res' = [args |-> <<>>, op |-> "write_edge_traffic", idx |-> i, val |-> t]
        /\ shadow' = IF i \in EdgeIndexes
                     THEN [shadow EXCEPT !.speeds[i] = t]
                     ELSE shadow
    /\ UNCHANGED <<graph, trafficLoaded, hdr, notTile>>

\* traffic_tile.edge_traffic(i)
EdgeTraffic ==
    /\ trafficLoaded
    /\ \E i \in IndexSamples :
        res' = [args |-> <<>>, op |-> "edge_traffic", idx |-> i,
                val |-> TrafficTile_edge_traffic(hdr, speeds, i)]
    /\ UNCHANGED <<graph, trafficLoaded, hdr, speeds, shadow, notTile>>

\* traffic_tile.write_last_update(ts)
WriteLastUpdate ==
    /\ trafficLoaded
    /\ \E ts \in TimeSamples :
        /\ hdr' = ffi_write_last_update(hdr, ts)
        /\ res' = [args |-> <<>>, op |-> "write_last_update", idx |-> 0, val |-> ts]
        /\ shadow' = [shadow EXCEPT !.last_update = ts]
    /\ UNCHANGED <<graph, trafficLoaded, speeds, notTile>>

\* traffic_tile.last_update()
LastUpdate ==
    /\ trafficLoaded
    /\ res' = [args |-> <<>>, op |-> "last_update", idx |-> 0, val |-> ffi_last_update(hdr)]
    /\ UNCHANGED <<graph, trafficLoaded, hdr, speeds, shadow, notTile>>

\* traffic_tile.write_spare(v)
WriteSpare ==
    /\ trafficLoaded
    /\ \E v \in SpareSamples :
        /\ hdr' = ffi_write_spare(hdr, v)
        /\ res' = [args |-> <<>>, op |-> "write_spare", idx |-> 0, val |-> v]
        /\ shadow' = [shadow EXCEPT !.spare = v]
    /\ UNCHANGED <<graph, trafficLoaded, speeds, notTile>>

\* traffic_tile.spare()
Spare ==
    /\ trafficLoaded
    /\ res' = [args |-> <<>>, op |-> "spare", idx |-> 0, val |-> ffi_spare(hdr)]
    /\ UNCHANGED <<graph, trafficLoaded, hdr, speeds, shadow, notTile>>

\* traffic_tile.edge_count()
TrafficEdgeCount ==
    /\ trafficLoaded
    /\ res' = [args |-> <<>>, op |-> "edge_count", idx |-> 0, val |-> ffi_edge_count(hdr)]
    /\ UNCHANGED <<graph, trafficLoaded, hdr, speeds, shadow, notTile>>

\* traffic_tile.clear_traffic()
ClearTraffic ==
    /\ trafficLoaded
    /\ LET c == ffi_clear_traffic(hdr, speeds)
       IN /\ hdr' = c.hdr
          /\ speeds' = c.speeds
    /\ res' = [args |-> <<>>, op |-> "clear_traffic", idx |-> 0, val |-> 0]
    /\ shadow' = [shadow EXCEPT !.last_update = 0, !.speeds = FreshSpeeds]
    /\ UNCHANGED <<graph, trafficLoaded, notTile>>

NextTraffic ==
    \/ WriteEdgeTraffic \/ EdgeTraffic
    \/ WriteLastUpdate \/ LastUpdate
    \/ WriteSpare \/ Spare
    \/ TrafficEdgeCount
    \/ ClearTraffic

SpecTraffic == InitTraffic /\ [][NextTraffic]_vars

\* C2: edge_traffic(i), last_update() and spare() return what the last write
\* to that location supplied, whatever sequence of writes came before.
C2_ReadsSeeLastWrite ==
    /\ (res.op = "edge_traffic" /\ res.idx < EdgeCount) =>
           res.val = Some(shadow.speeds[res.idx])
    /\ res.op = "last_update" => res.val = shadow.last_update
    /\ res.op = "spare" => res.val = shadow.spare

C2_Witness ==
    /\ res.op = "edge_traffic"
    /\ res.idx = 1
    /\ res.val = Some(LiveTraffic_from_segmented_speeds(72, <<1, 2, 3>>, <<127, 128>>))
    /\ shadow.speeds[0] = LiveTraffic_from_uniform_speed(72)
    /\ shadow.last_update = 101
    /\ shadow.spare = 999

\* C3: every clear_traffic() step leaves all edge records UNKNOWN and
\* last_update 0, and leaves spare and edge_count as they were.
C3_ClearTrafficEffect ==
    [][res'.op = "clear_traffic" =>
          /\ \A e \in EdgeIndexes : speeds'[e] = LiveTraffic_UNKNOWN
          /\ DOMAIN speeds' = EdgeIndexes
          /\ hdr'.last_update = 0
          /\ hdr'.spare = hdr.spare
          /\ hdr'.edge_count = hdr.edge_count
          /\ hdr'.tile_id = hdr.tile_id]_vars

C3_Witness ==
    /\ res.op = "clear_traffic"
    /\ hdr.spare = 999
    /\ hdr.last_update = 0
    /\ \A e \in EdgeIndexes : speeds[e] = LiveTraffic_UNKNOWN

\* C13: write_edge_traffic(i, t) with i >= edge_count fails with an
\* OutOfRange error that the caller receives.
C13_OutOfRangeReported ==
    (res.op = "write_edge_traffic" /\ res.idx >= ffi_edge_count(hdr)) =>
        TrafficTile_write_edge_traffic_returns(hdr, speeds, res.idx, res.val)
            = <<"OutOfRange">>

\* C28: each traffic write changes only its own target. A step of
\* write_edge_traffic(i, t) with i < edge_count leaves every other edge
\* record, last_update and spare as they were, and with i >= edge_count it
\* changes nothing; write_last_update changes only last_update, write_spare
\* only spare; no write changes edge_count, the tile id or the static graph
\* tile.
C28_WritesTouchOnlyTheirTarget ==
    [][/\ res'.op = "write_edge_traffic" =>
              /\ hdr' = hdr
              /\ DOMAIN speeds' = DOMAIN speeds
              /\ \A j \in DOMAIN speeds : j # res'.idx => speeds'[j] = speeds[j]
              /\ res'.idx >= hdr.edge_count => speeds' = speeds
       /\ res'.op = "write_last_update" =>
              /\ speeds' = speeds
              /\ hdr' = [hdr EXCEPT !.last_update = hdr'.last_update]
       /\ res'.op = "write_spare" =>
              /\ speeds' = speeds
              /\ hdr' = [hdr EXCEPT !.spare = hdr'.spare]
       /\ res'.op \in {"write_edge_traffic", "write_last_update", "write_spare"} =>
              /\ hdr'.edge_count = hdr.edge_count
              /\ hdr'.tile_id = hdr.tile_id
              /\ graph' = graph
              /\ trafficLoaded' = trafficLoaded]_vars

\* edge 0 was written last, and edge 1, last_update and spare still hold
\* what earlier writes left there
C28_Witness ==
    /\ res.op = "write_edge_traffic"
    /\ res.idx = 0
    /\ res.val = LiveTraffic_from_uniform_speed(72)
    /\ speeds[0] = LiveTraffic_from_uniform_speed(72)
    /\ speeds[1] = LiveTraffic_CLOSED
    /\ hdr.last_update = 1750000000
    /\ hdr.spare = 999

---------------------------------------------------------------------------
(* Graph tile speed accessors                                              *)

\* SpeedSources: a bit mask, modelled as the set of its flags; NO_FLOW is
\* the empty mask
NO_FLOW == {}
SpeedSources_ALL == {"FREE_FLOW", "CONSTRAINED_FLOW", "PREDICTED_FLOW", "CURRENT_FLOW"}

\* the record the tile's traffic tile holds for the edge; UNKNOWN when the
\* tileset has no traffic archive
TrafficRecord(loaded, sp, de) == IF loaded THEN sp[de] ELSE LiveTraffic_UNKNOWN

\* valhalla::baldr::GraphTile::IsClosed: the edge has a live record with
\* overall speed 0 and breakpoint1 = 255
IsClosed_any_zero_speed(loaded, sp, de) ==
    /\ loaded
    /\ overall_encoded_speed(TrafficRecord(loaded, sp, de)) = 0

IsClosed(loaded, sp, de) ==
    /\ loaded
    /\ overall_encoded_speed(TrafficRecord(loaded, sp, de)) = 0
    /\ breakpoint1(TrafficRecord(loaded, sp, de)) = 255

\* ffi::live_speed: "returns 0 if the edge is closed, 255 if live speed in
\* unknown and speed in km/h otherwise"
ffi_live_speed(loaded, sp, de) ==
    LET r == TrafficRecord(loaded, sp, de)
    IN IF r = LiveTraffic_UNKNOWN THEN 255
       ELSE IF IsClosed(loaded, sp, de) THEN 0
       ELSE get_overall_speed(r)

\* a live_speed that takes speed 0 for "no live speed"
GraphTile_live_speed_zero_is_none(loaded, sp, de) ==
    LET s == ffi_live_speed(loaded, sp, de)
    IN IF s = 0 \/ s = 255 THEN None ELSE Some(s)

\* GraphTile::live_speed
GraphTile_live_speed(loaded, sp, de) ==
    LET s == ffi_live_speed(loaded, sp, de)
    IN CASE s = 0 -> Some(0)
         [] s = 255 -> None
         [] OTHER -> Some(s)

\* GraphTile::edge_closed
GraphTile_edge_closed(loaded, sp, de) == IsClosed(loaded, sp, de)

\* the share of the live speed, in tenths, seconds_from_now into the future:
\* it decays linearly over one hour
LiveWeight(seconds_from_now) ==
    IF seconds_from_now >= 3600 THEN 0 ELSE 10 - (seconds_from_now \div 360)

\* whether second_of_week falls between 7am and 7pm
Daytime(second_of_week) ==
    /\ (second_of_week % 86400) >= 25200
    /\ (second_of_week % 86400) < 68400

\* the speed without live traffic: the predicted speed, else the typical speed
\* of the time of day, else the truck speed of a truck, else the default speed
BaseSpeed(e, flow_mask, seconds, is_truck) ==
    IF "PREDICTED_FLOW" \in flow_mask /\ e.predicted_speed > 0
    THEN [speed |-> e.predicted_speed, sources |-> {"PREDICTED_FLOW"}]
    ELSE IF "CONSTRAINED_FLOW" \in flow_mask /\ Daytime(seconds)
            /\ e.constrained_flow_speed > 0
    THEN [speed |-> e.constrained_flow_speed, sources |-> {"CONSTRAINED_FLOW"}]
    ELSE IF "FREE_FLOW" \in flow_mask /\ ~Daytime(seconds) /\ e.free_flow_speed > 0
    THEN [speed |-> e.free_flow_speed, sources |-> {"FREE_FLOW"}]
    ELSE IF is_truck /\ e.truck_speed > 0
    THEN [speed |-> e.truck_speed, sources |-> NO_FLOW]
    ELSE [speed |-> e.speed, sources |-> NO_FLOW]

\* a GetSpeed that takes the live speed of a closed edge too
GetSpeed_closed_is_live(loaded, sp, g, de, flow_mask, seconds, is_truck, seconds_from_now) ==
    LET live == ffi_live_speed(loaded, sp, de)
        base == BaseSpeed(g[de], flow_mask, seconds, is_truck)
    IN IF "CURRENT_FLOW" \in flow_mask /\ live # 255
       THEN [speed |-> live, sources |-> {"CURRENT_FLOW"}]
       ELSE base

\* valhalla::baldr::GraphTile::GetSpeed: a known live speed of an edge that is
\* not closed wins when asked for, mixed with the speed without live traffic
\* as it ages
GetSpeed(loaded, sp, g, de, flow_mask, seconds, is_truck, seconds_from_now) ==
    LET live == ffi_live_speed(loaded, sp, de)
        w == LiveWeight(seconds_from_now)
        base == BaseSpeed(g[de], flow_mask, seconds, is_truck)
    IN IF "CURRENT_FLOW" \in flow_mask /\ live # 255 /\ live # 0 /\ w > 0
       THEN IF w = 10
            THEN [speed |-> live, sources |-> {"CURRENT_FLOW"}]
            ELSE [speed |-> (live * w + base.speed * (10 - w)) \div 10,
                  sources |-> {"CURRENT_FLOW"} \cup base.sources]
       ELSE base

\* an edge_speed that reports the requested sources as the contributing ones
GraphTile_edge_speed_echoes_request(loaded, sp, g, de, speed_sources, is_truck, second_of_week, seconds_from_now) ==
    [speed |-> GetSpeed(loaded, sp, g, de, speed_sources, second_of_week, is_truck,
                        seconds_from_now).speed,
     sources |-> speed_sources]

\* GraphTile::edge_speed: (speed, SpeedSources::from_bits_retain(flow_sources))
GraphTile_edge_speed(loaded, sp, g, de, speed_sources, is_truck, second_of_week, seconds_from_now) ==
    GetSpeed(loaded, sp, g, de, speed_sources, second_of_week, is_truck, seconds_from_now)

\* arguments tried: five source masks, Sunday midnight and noon, now, half
\* an hour and two hours ahead
MaskSamples ==
    {NO_FLOW, SpeedSources_ALL, {"CURRENT_FLOW"},
     {"FREE_FLOW", "CONSTRAINED_FLOW"}, {"CONSTRAINED_FLOW", "CURRENT_FLOW"}}
SecondOfWeekSamples == {0, 43200}
SecondsFromNowSamples == {0, 1800, 7200}

\* a tileset with or without a traffic archive, and one of its graph tiles
InitSpeed ==
    /\ graph = TileGraph
    /\ trafficLoaded \in BOOLEAN
    /\ hdr = FreshHeader
    /\ speeds = FreshSpeeds
    /\ res = [args |-> <<>>, op |-> "graph_tile", idx |-> 0, val |-> TileId]
    /\ shadow = FreshShadow
    /\ GidIdle /\ LtIdle /\ ConcIdle /\ OwnIdle /\ RdIdle /\ ActIdle

\* tile.live_speed(de)
LiveSpeed ==
    /\ \E de \in EdgeIndexes :
        res' = [args |-> <<>>, op |-> "live_speed", idx |-> de,
                val |-> GraphTile_live_speed(trafficLoaded, speeds, de)]
    /\ UNCHANGED <<graph, trafficLoaded, hdr, speeds, shadow, notTile>>

\* tile.edge_closed(de)
EdgeClosed ==
    /\ \E de \in EdgeIndexes :
        res' = [args |-> <<>>, op |-> "edge_closed", idx |-> de,
                val |-> GraphTile_edge_closed(trafficLoaded, speeds, de)]
    /\ UNCHANGED <<graph, trafficLoaded, hdr, speeds, shadow, notTile>>

\* tile.edge_speed(de, speed_sources, is_truck, second_of_week, seconds_from_now)
EdgeSpeed ==
    /\ \E de \in EdgeIndexes, m \in MaskSamples, truck \in BOOLEAN,
          sow \in SecondOfWeekSamples, sfn \in SecondsFromNowSamples :
        res' = [args |-> <<m, truck, sow, sfn>>, op |-> "edge_speed", idx |-> de,
                val |-> GraphTile_edge_speed(trafficLoaded, speeds, graph, de,
                                             m, truck, sow, sfn)]
    /\ UNCHANGED <<graph, trafficLoaded, hdr, speeds, shadow, notTile>>

NextSpeed == WriteEdgeTraffic \/ LiveSpeed \/ EdgeClosed \/ EdgeSpeed

SpecSpeed == InitSpeed /\ [][NextSpeed]_vars

\* C6: live_speed of the edge at index i is None when the record stored at i
\* is UNKNOWN, Some(0) when it is CLOSED, and otherwise Some of twice its
\* overall encoded speed, whatever its sub-segment speeds are.
C6_LiveSpeed ==
    (res.op = "live_speed" /\ trafficLoaded) =>
        LET r == speeds[res.idx]
        IN res.val = (IF r = LiveTraffic_UNKNOWN THEN None
                      ELSE IF r = LiveTraffic_CLOSED THEN Some(0)
                      ELSE Some(2 * overall_encoded_speed(r)))

C6_Witness ==
    /\ res.op = "live_speed"
    /\ trafficLoaded
    /\ speeds[res.idx] = LiveTraffic_from_segmented_speeds(72, <<1, 2, 3>>, <<127, 128>>)
    /\ res.val = Some(72)
    /\ \E e \in EdgeIndexes : speeds[e] = LiveTraffic_CLOSED

C8_EdgeSpeedNeverZero ==
    res.op = "edge_speed" => res.val.speed > 0

C8_Witness ==
    /\ res.op = "edge_speed"
    /\ trafficLoaded
    /\ speeds[res.idx] = LiveTraffic_CLOSED
    /\ "CURRENT_FLOW" \in res.args[1]
    /\ res.args[4] = 0
    /\ res.val.speed = graph[res.idx].speed

\* the edge has no live record and no predicted, free-flow or
\* constrained-flow speed
NoFlowData(loaded, sp, g, de) ==
    /\ TrafficRecord(loaded, sp, de) = LiveTraffic_UNKNOWN
    /\ g[de].predicted_speed = 0
    /\ g[de].free_flow_speed = 0
    /\ g[de].constrained_flow_speed = 0

\* C24: the sources edge_speed reports as having contributed are a subset of
\* the sources requested; for an edge without live, predicted, free-flow and
\* constrained-flow data every mask gives NO_FLOW with the edge's default
\* speed, or with its truck speed for a truck when that speed is not 0.
C24_SourcesWithinRequest ==
    res.op = "edge_speed" =>
        /\ res.val.sources \subseteq res.args[1]
        /\ NoFlowData(trafficLoaded, speeds, graph, res.idx) =>
               /\ res.val.sources = NO_FLOW
               /\ res.val.speed =
                      (IF res.args[2] /\ graph[res.idx].truck_speed > 0
                       THEN graph[res.idx].truck_speed
                       ELSE graph[res.idx].speed)

\* every source was requested for an edge without flow data, and none came
\* back
C24_Witness ==
    /\ res.op = "edge_speed"
    /\ trafficLoaded
    /\ NoFlowData(trafficLoaded, speeds, graph, res.idx)
    /\ res.args[1] = SpeedSources_ALL
    /\ res.val = [speed |-> graph[res.idx].speed, sources |-> NO_FLOW]
    /\ \E e \in EdgeIndexes : speeds[e] # LiveTraffic_UNKNOWN

---------------------------------------------------------------------------
(* Concurrent use of one traffic tile                                      *)

\* the number of threads, each with its own handle of the same traffic tile
NumThreads == 2
Threads == 1..NumThreads
\* the records the threads write: they differ in both 32-bit halves
ConcSamples ==
    {LiveTraffic_from_uniform_speed(72),
     LiveTraffic_from_segmented_speeds(72, <<1, 2, 3>>, <<127, 128>>)}
\* edge indexes the threads use: every edge and one index past the end
ConcIndexes == 0..EdgeCount

ThreadIdle == [state |-> "idle", idx |-> 0, val |-> {}]

InitConc ==
    /\ graph = TileGraph
    /\ trafficLoaded = TRUE
    /\ hdr = FreshHeader
    /\ speeds = FreshSpeeds
    /\ res = [args |-> <<>>, op |-> "traffic_tile", idx |-> 0, val |-> TileId]
    /\ shadow = FreshShadow
    /\ pc = [t \in Threads |-> ThreadIdle]
    /\ supplied = [e \in EdgeIndexes |-> {}]
    /\ written = [e \in EdgeIndexes |-> FALSE]
    /\ lastRead = <<>>
    /\ GidIdle /\ LtIdle /\ OwnIdle /\ RdIdle /\ ActIdle

\* thread t enters write_edge_traffic(i, v): past the end the call returns at
\* once, its error dropped; otherwise the store is still to come
CallWrite(t) ==
    /\ pc[t].state = "idle"
    /\ \E i \in ConcIndexes, v \in ConcSamples :
        IF i < ffi_edge_count(hdr)
        THEN /\ pc' = [pc EXCEPT ![t] = [state |-> "store", idx |-> i, val |-> v]]
             /\ supplied' = [supplied EXCEPT ![i] = @ \cup {v}]
        ELSE UNCHANGED <<pc, supplied>>
    /\ UNCHANGED <<tileVars, written, lastRead, notConc>>

\* a store done as two 32-bit stores, the low half first
StoreInHalves(t) ==
    \/ /\ pc[t].state = "store"
       /\ speeds' = [speeds EXCEPT ![pc[t].idx] =
                        (@ \cap (32..63)) \cup (pc[t].val \cap (0..31))]
       /\ pc' = [pc EXCEPT ![t].state = "store_high"]
       /\ UNCHANGED <<graph, trafficLoaded, hdr, res, shadow, supplied, written,
                      lastRead, notConc>>
    \/ /\ pc[t].state = "store_high"
       /\ speeds' = [speeds EXCEPT ![pc[t].idx] =
                        (@ \cap (0..31)) \cup (pc[t].val \cap (32..63))]
       /\ pc' = [pc EXCEPT ![t] = ThreadIdle]
       /\ written' = [written EXCEPT ![pc[t].idx] = TRUE]
       /\ UNCHANGED <<graph, trafficLoaded, hdr, res, shadow, supplied, lastRead,
                      notConc>>

\* thread t's write reaches the mmap: one 64-bit store, and the call returns
Store(t) ==
    /\ pc[t].state = "store"
    /\ speeds' = TrafficTile_write_edge_traffic(hdr, speeds, pc[t].idx, pc[t].val)
    /\ pc' = [pc EXCEPT ![t] = ThreadIdle]
    /\ written' = [written EXCEPT ![pc[t].idx] = TRUE]
    /\ UNCHANGED <<graph, trafficLoaded, hdr, res, shadow, supplied, lastRead, notConc>>

\* thread t enters edge_traffic(i)
CallRead(t) ==
    /\ pc[t].state = "idle"
    /\ \E i \in ConcIndexes :
        pc' = [pc EXCEPT ![t] = [state |-> "load", idx |-> i, val |-> {}]]
    /\ UNCHANGED <<tileVars, supplied, written, lastRead, notConc>>

\* thread t's read reaches the mmap: one 64-bit load, and the call returns
Load(t) ==
    /\ pc[t].state = "load"
    /\ lastRead' = [idx |-> pc[t].idx,
                    val |-> TrafficTile_edge_traffic(hdr, speeds, pc[t].idx)]
    /\ pc' = [pc EXCEPT ![t] = ThreadIdle]
    /\ UNCHANGED <<tileVars, supplied, written, notConc>>

NextConc ==
    \E t \in Threads :
        CallWrite(t) \/ Store(t) \/ CallRead(t) \/ Load(t)

SpecConc == InitConc /\ [][NextConc]_vars

\* C4: under every interleaving a read of edge i returns the record's initial
\* value or a value one write to i supplied in full; the record of an edge
\* always is such a value, and once a write to it has returned it holds the
\* value of one of the writes (the only one, when no other write to that
\* edge was made).
C4_NoTornRecords ==
    /\ lastRead # <<>> =>
           IF lastRead.idx \in EdgeIndexes
           THEN \/ lastRead.val = Some(FreshSpeeds[lastRead.idx])
                \/ \E v \in supplied[lastRead.idx] : lastRead.val = Some(v)
           ELSE lastRead.val = None
    /\ \A e \in EdgeIndexes :
           /\ speeds[e] \in {FreshSpeeds[e]} \cup supplied[e]
           /\ written[e] => speeds[e] \in supplied[e]

\* two threads have written different records to different edges while a
\* third write to one of them is in flight, and a read saw a written record
C4_Witness ==
    /\ lastRead # <<>>
    /\ lastRead.idx = 0
    /\ lastRead.val = Some(LiveTraffic_from_uniform_speed(72))
    /\ speeds[0] = LiveTraffic_from_segmented_speeds(72, <<1, 2, 3>>, <<127, 128>>)
    /\ speeds[1] = LiveTraffic_from_uniform_speed(72)
    /\ written[0] /\ written[1]
    /\ \E t \in Threads : pc[t].state = "store"

---------------------------------------------------------------------------
(* Shared ownership of the memory maps                                     *)

\* the most handles of one kind alive at once
MaxHandles == 2
\* the most graph tile objects alive at once
MaxTiles == 2
TileSlots == 1..MaxTiles

\* what a read through a dangling pointer may produce besides the tile's data
Garbage == {<<>>, [e \in EdgeIndexes |-> EdgeProfiles[1]]}
\* what a read of an archive's bytes returns
ReadMapped(mapped, data) == IF mapped THEN {data} ELSE Garbage \cup {data}

\* the tileset is created holding one strong reference of each archive
new_tileset == [tiles |-> 1, traffic |-> 1]
\* a graph tile object that only borrows the archive from the tileset
get_graph_tile_borrowed(refs) == refs
\* a new graph tile object keeps a strong reference of the tiles archive
get_graph_tile(refs) == refs + 1
\* a new traffic tile handle keeps a strong reference of the traffic archive
get_traffic_tile(refs) == refs + 1
\* a holder of an archive goes away; the archive is unmapped with the last one
release(refs) == refs - 1
StillMapped(refs) == refs > 0

InitOwn ==
    /\ readers = 1
    /\ tileRefs = [o \in TileSlots |-> 0]
    /\ trafficHandles = 0
    /\ tilesTarRefs = new_tileset.tiles
    /\ trafficTarRefs = new_tileset.traffic
    /\ tilesMapped = TRUE
    /\ trafficMapped = TRUE
    /\ ownRes = [op |-> "new", val |-> <<>>]
    /\ graph = TileGraph
    /\ trafficLoaded = TRUE
    /\ hdr = FreshHeader
    /\ speeds = FreshSpeeds
    /\ res = <<>>
    /\ shadow = <<>>
    /\ GidIdle /\ LtIdle /\ ConcIdle /\ RdIdle /\ ActIdle

\* GraphReader::clone: one more handle of the same tileset
CloneReader ==
    /\ readers > 0 /\ readers < MaxHandles
    /\ readers' = readers + 1
    /\ ownRes' = [op |-> "clone_reader", val |-> <<>>]
    /\ UNCHANGED <<tileRefs, trafficHandles, tilesTarRefs, trafficTarRefs,
                   tilesMapped, trafficMapped, notOwn>>

\* a GraphReader handle is dropped; the last one destroys the tileset, which
\* lets go of both archives
DropReader ==
    /\ readers > 0
    /\ readers' = readers - 1
    /\ IF readers = 1
       THEN /\ tilesTarRefs' = release(tilesTarRefs)
            /\ trafficTarRefs' = release(trafficTarRefs)
            /\ tilesMapped' = StillMapped(tilesTarRefs')
            /\ trafficMapped' = StillMapped(trafficTarRefs')
       ELSE UNCHANGED <<tilesTarRefs, trafficTarRefs, tilesMapped, trafficMapped>>
    /\ ownRes' = [op |-> "drop_reader", val |-> <<>>]
    /\ UNCHANGED <<tileRefs, trafficHandles, notOwn>>

\* GraphReader::graph_tile: a new tile object with one handle
GraphTileGet ==
    /\ readers > 0
    /\ \E o \in TileSlots :
        /\ tileRefs[o] = 0
        /\ tileRefs' = [tileRefs EXCEPT ![o] = 1]
    /\ tilesTarRefs' = get_graph_tile(tilesTarRefs)
    /\ ownRes' = [op |-> "graph_tile", val |-> <<>>]
    /\ UNCHANGED <<readers, trafficHandles, trafficTarRefs, tilesMapped,
                   trafficMapped, notOwn>>

\* GraphTile::clone: one more handle of the same tile object
CloneTile ==
    /\ \E o \in TileSlots :
        /\ tileRefs[o] > 0 /\ tileRefs[o] < MaxHandles
        /\ tileRefs' = [tileRefs EXCEPT ![o] = @ + 1]
    /\ ownRes' = [op |-> "clone_tile", val |-> <<>>]
    /\ UNCHANGED <<readers, trafficHandles, tilesTarRefs, trafficTarRefs,
                   tilesMapped, trafficMapped, notOwn>>

\* a GraphTile handle is dropped; the last one destroys the tile object,
\* which lets go of the tiles archive
DropTile ==
    /\ \E o \in TileSlots :
        /\ tileRefs[o] > 0
        /\ tileRefs' = [tileRefs EXCEPT ![o] = @ - 1]
        /\ IF tileRefs[o] = 1
           THEN /\ tilesTarRefs' = release(tilesTarRefs)
                /\ tilesMapped' = StillMapped(tilesTarRefs')
           ELSE UNCHANGED <<tilesTarRefs, tilesMapped>>
    /\ ownRes' = [op |-> "drop_tile", val |-> <<>>]
    /\ UNCHANGED <<readers, trafficHandles, trafficTarRefs, trafficMapped, notOwn>>

\* GraphReader::traffic_tile: a new handle holding the traffic archive
TrafficTileGet ==
    /\ readers > 0 /\ trafficHandles < MaxHandles
    /\ trafficHandles' = trafficHandles + 1
    /\ trafficTarRefs' = get_traffic_tile(trafficTarRefs)
    /\ ownRes' = [op |-> "traffic_tile", val |-> <<>>]
    /\ UNCHANGED <<readers, tileRefs, tilesTarRefs, tilesMapped, trafficMapped, notOwn>>

\* a TrafficTile handle is dropped and lets go of the traffic archive
DropTrafficTile ==
    /\ trafficHandles > 0
    /\ trafficHandles' = trafficHandles - 1
    /\ trafficTarRefs' = release(trafficTarRefs)
    /\ trafficMapped' = StillMapped(trafficTarRefs')
    /\ ownRes' = [op |-> "drop_traffic_tile", val |-> <<>>]
    /\ UNCHANGED <<readers, tileRefs, tilesTarRefs, tilesMapped, notOwn>>

\* GraphTile::directededges through a live handle: reads the archive's bytes
ReadTile ==
    /\ \E o \in TileSlots : tileRefs[o] > 0
    /\ \E v \in ReadMapped(tilesMapped, graph) :
        ownRes' = [op |-> "directededges", val |-> v]
    /\ UNCHANGED <<readers, tileRefs, trafficHandles, tilesTarRefs, trafficTarRefs,
                   tilesMapped, trafficMapped, notOwn>>

\* TrafficTile::edge_traffic through a live handle: reads the archive's bytes
ReadTraffic ==
    /\ trafficHandles > 0
    /\ \E v \in ReadMapped(trafficMapped, speeds) :
        ownRes' = [op |-> "edge_traffic", val |-> v]
    /\ UNCHANGED <<readers, tileRefs, trafficHandles, tilesTarRefs, trafficTarRefs,
                   tilesMapped, trafficMapped, notOwn>>

NextOwn ==
    \/ CloneReader \/ DropReader
    \/ GraphTileGet \/ CloneTile \/ DropTile
    \/ TrafficTileGet \/ DropTrafficTile
    \/ ReadTile \/ ReadTraffic

SpecOwn == InitOwn /\ [][NextOwn]_vars

\* C5: after any clones and drops of GraphReader, GraphTile and TrafficTile
\* handles, each archive is mapped exactly while a handle derived from it is
\* alive (the tileset's or a tile's), so a read through a tile handle returns
\* the tile's data whether or not the reader is still there, and the archive
\* is unmapped once the last such handle is gone.
C5_MappedWhileHandlesLive ==
    /\ tilesMapped <=> (readers > 0 \/ \E o \in TileSlots : tileRefs[o] > 0)
    /\ trafficMapped <=> (readers > 0 \/ trafficHandles > 0)
    /\ ownRes.op = "directededges" => ownRes.val = TileGraph
    /\ ownRes.op = "edge_traffic" => ownRes.val = FreshSpeeds

\* the reader is gone, a graph tile handle obtained from it still reads the
\* tile's data, and the traffic archive, with no handle left, is unmapped
C5_Witness ==
    /\ readers = 0
    /\ \E o \in TileSlots : tileRefs[o] > 0
    /\ ownRes.op = "directededges"
    /\ ownRes.val = TileGraph
    /\ tilesMapped
    /\ trafficHandles = 0
    /\ ~trafficMapped

---------------------------------------------------------------------------
(* GraphId words: identity and layout                                      *)

\* GraphId::new: the word is taken as it is, spare bits included
GraphId_new(value) == value
\* GraphId::tile (Tile_Base): level and tile id kept, id and spare bits cleared
GraphId_tile(g) == g \cap (0..24)
\* impl PartialEq for GraphId: self.value == other.value
GraphId_eq(a, b) == a = b
\* impl Hash for GraphId: self.value.hash(state) feeds the hasher the eight
\* bytes of the word
GraphId_hash(g) == [k \in 0..7 |-> Field(g, 8 * k, 8)]

\* the 46 bits that carry level, tile id and id
PayloadBits == 0..45
\* 5411833275938 = 2520 * 2^31 + 174482978, the id of the unit test
TestWord == BitOr(Shl(U64(2520), 31), U64(174482978))
\* what producers put in the 18 spare bits
SpareBitSamples == {{}, {46}, {63}, 46..63}

\* the ids the callers hold, each with the way it was made
WordSources ==
    {[how |-> "from_parts", args |-> <<l, t, i>>,
      value |-> GraphId_from_parts(l, t, i)[1]] :
         l \in {0, 2, 7}, t \in {0, 838852, 4194303}, i \in {0, 161285, 2097151}}
    \cup {[how |-> "new", args |-> <<>>, value |-> GraphId_new(w \cup sp)] :
              w \in {TestWord, GraphId_default}, sp \in SpareBitSamples}
    \cup {[how |-> "default", args |-> <<>>, value |-> GraphId_default]}

InitGraphIdWord ==
    /\ gidIn \in WordSources \X WordSources
    /\ gidOut = <<>>
    /\ LtIdle /\ TileIdle /\ ConcIdle /\ OwnIdle /\ RdIdle /\ ActIdle

\* a == b, and the hashes of both ids
Compare ==
    /\ gidOut = <<>>
    /\ gidOut' = [op |-> "compare",
                  eq |-> GraphId_eq(gidIn[1].value, gidIn[2].value),
                  hashes |-> <<GraphId_hash(gidIn[1].value),
                               GraphId_hash(gidIn[2].value)>>]
    /\ UNCHANGED <<gidIn, notGid>>

\* a.tile()
TileBase ==
    /\ gidOut = <<>>
    /\ gidOut' = [op |-> "tile", val |-> GraphId_tile(gidIn[1].value)]
    /\ UNCHANGED <<gidIn, notGid>>

\* a.level(), a.tileid(), a.id()
Parts ==
    /\ gidOut = <<>>
    /\ gidOut' = [op |-> "parts",
                  val |-> <<GraphId_level(gidIn[1].value),
                            GraphId_tileid(gidIn[1].value),
                            GraphId_id(gidIn[1].value)>>]
    /\ UNCHANGED <<gidIn, notGid>>

NextGraphIdWord == Compare \/ TileBase \/ Parts

SpecGraphIdWord == InitGraphIdWord /\ [][NextGraphIdWord]_vars

\* C11: two ids whose low 46 bits are equal compare equal and hash to the
\* same value, whatever their top 18 bits hold.
C11_IdentityIgnoresSpareBits ==
    (/\ gidOut # <<>>
     /\ gidOut.op = "compare"
     /\ gidIn[1].value \cap PayloadBits = gidIn[2].value \cap PayloadBits)
        => /\ gidOut.eq
           /\ gidOut.hashes[1] = gidOut.hashes[2]

\* C12: from_parts(l, t, i) has the value l + 8*t + 2^25*i (low 25 bits
\* l + 8*t, the rest i; 5411833275938 for the test's triple), tile() keeps
\* level and tile id and sets id to 0, and the Default id has exactly the 46
\* low bits set and decodes to level 7, tile 4194303, id 2097151.
C12_GraphIdLayout ==
    /\ gidIn[1].how = "from_parts" =>
           /\ Field(gidIn[1].value, 0, 25) = gidIn[1].args[1] + 8 * gidIn[1].args[2]
           /\ Field(gidIn[1].value, 25, 39) = gidIn[1].args[3]
           /\ gidIn[1].args = <<2, 838852, 161285>> => gidIn[1].value = TestWord
    /\ (gidOut # <<>> /\ gidOut.op = "tile") =>
           /\ GraphId_level(gidOut.val) = GraphId_level(gidIn[1].value)
           /\ GraphId_tileid(gidOut.val) = GraphId_tileid(gidIn[1].value)
           /\ GraphId_id(gidOut.val) = 0
    /\ gidIn[1].how = "default" =>
           /\ gidIn[1].value = 0..45
           /\ (gidOut # <<>> /\ gidOut.op = "parts") =>
                  gidOut.val = <<7, 4194303, 2097151>>

\* the default id has been decoded, and the test's id has been cut to its tile
C12_Witness ==
    /\ gidOut # <<>>
    /\ \/ /\ gidIn[1].how = "default"
          /\ gidOut.op = "parts"
          /\ gidOut.val[3] = 2097151
       \/ /\ gidIn[1].how = "from_parts"
          /\ gidIn[1].args = <<2, 838852, 161285>>
          /\ gidOut.op = "tile"
          /\ gidOut.val = GraphId_from_parts(2, 838852, 0)[1]

---------------------------------------------------------------------------
(* Tileset: construction and tile lookup                                   *)

\* what the configured path of an archive leads to
ArchiveStates == {"ok", "missing", "malformed"}

\* the tiles of the tiles archive, in archive order, with the lengths of
\* their three arrays; the traffic archive, when there is one, holds a traffic
\* tile for each of them
ArchiveTiles ==
    <<[level |-> 0, tileid |-> 3015, nodes |-> 1, edges |-> 2, transitions |-> 1],
      [level |-> 1, tileid |-> 47701, nodes |-> 2, edges |-> 1, transitions |-> 2],
      [level |-> 2, tileid |-> 763926, nodes |-> 2, edges |-> 3, transitions |-> 0],
      [level |-> 2, tileid |-> 724159, nodes |-> 1, edges |-> 1, transitions |-> 1]>>
TileIndexes == DOMAIN ArchiveTiles
\* the null SharedPtr<GraphTile>
NullTile == 0
TileIdOf(k) == ffi_from_parts(ArchiveTiles[k].level, ArchiveTiles[k].tileid, 0).value

\* ffi::new_tileset: throws unless the tiles archive can be mapped; the
\* traffic archive is mapped when it can be and left out otherwise
ffi_new_tileset(c) ==
    IF c.tiles = "ok"
    THEN [ok |-> TRUE, value |-> [traffic |-> c.traffic = "ok"]]
    ELSE [ok |-> FALSE, value |-> [traffic |-> FALSE]]

\* a constructor that hands out a reader whatever new_tileset said
GraphReader_new_unchecked(c) ==
    [ok |-> TRUE, value |-> ffi_new_tileset(c).value]

\* GraphReader::new: Ok(Self(ffi::new_tileset(config.inner())?))
GraphReader_new(c) ==
    LET r == ffi_new_tileset(c)
    IN IF r.ok THEN [ok |-> TRUE, value |-> r.value] ELSE r

\* ffi::TileSet::tiles: the id of every tile of the archive
ffi_tiles(ts) == [k \in TileIndexes |-> TileIdOf(k)]
GraphReader_tiles(ts) == ffi_tiles(ts)

\* ffi::TileSet::get_graph_tile: the tile of the archive at the id's level
\* and tile id, or a null pointer
ffi_get_graph_tile(ts, id) ==
    IF \E k \in TileIndexes : TileIdOf(k) = GraphId_tile(id)
    THEN CHOOSE k \in TileIndexes : TileIdOf(k) = GraphId_tile(id)
    ELSE NullTile

\* ffi::TileSet::get_traffic_tile: the traffic tile of that tile, or an
\* exception when there is no traffic archive or no such tile
ffi_get_traffic_tile(ts, id) ==
    LET k == ffi_get_graph_tile(ts, id)
    IN IF ts.traffic /\ k # NullTile
       THEN [ok |-> TRUE,
             value |-> [tile_id |-> TileIdOf(k), edge_count |-> ArchiveTiles[k].edges]]
       ELSE [ok |-> FALSE, value |-> <<>>]

\* a GraphTile::new without the null check
GraphTile_new_unchecked(tile) == Some(tile)

\* GraphTile::new: None for a null pointer
GraphTile_new(tile) == IF tile = NullTile THEN None ELSE Some(tile)

\* a graph_tile that finds a tile by its own id only, not by the id of a
\* node or an edge in it
GraphReader_graph_tile_by_tile_id_only(ts, id) ==
    GraphTile_new(IF \E k \in TileIndexes : TileIdOf(k) = id
                  THEN CHOOSE k \in TileIndexes : TileIdOf(k) = id
                  ELSE NullTile)

\* GraphReader::graph_tile
GraphReader_graph_tile(ts, id) == GraphTile_new(ffi_get_graph_tile(ts, id))

\* GraphReader::traffic_tile: self.0.get_traffic_tile(id).ok()
GraphReader_traffic_tile(ts, id) ==
    LET r == ffi_get_traffic_tile(ts, id)
    IN IF r.ok THEN Some(r.value) ELSE None

\* GraphTile::id; what a null tile pointer yields is not defined, and is
\* taken to be the invalid id
GraphTile_id(tile) == IF tile \in TileIndexes THEN TileIdOf(tile) ELSE GraphId_default
\* GraphTile::directededges().len(), nodes().len(), transitions().len()
EdgesLen(tile) == IF tile \in TileIndexes THEN ArchiveTiles[tile].edges ELSE 0
NodesLen(tile) == IF tile \in TileIndexes THEN ArchiveTiles[tile].nodes ELSE 0
TransitionsLen(tile) == IF tile \in TileIndexes THEN ArchiveTiles[tile].transitions ELSE 0

\* ids looked up: every id of tiles(), the default id, and the id of a tile
\* that is not in the archive
LookupIds ==
    {TileIdOf(k) : k \in TileIndexes}
        \cup {GraphId_default, ffi_from_parts(2, 838852, 0).value}

InitReader ==
    /\ cfg \in [tiles : ArchiveStates, traffic : ArchiveStates, debug : BOOLEAN]
    /\ reader = <<>>
    /\ rdOut = <<>>
    /\ GidIdle /\ LtIdle /\ TileIdle /\ ConcIdle /\ OwnIdle /\ ActIdle

\* GraphReader::new(&config)
New ==
    /\ reader = <<>>
    /\ reader' = GraphReader_new(cfg)
    /\ rdOut' = [op |-> "new", args |-> <<>>, val |-> reader'.ok]
    /\ UNCHANGED <<cfg, notRd>>

\* reader.tiles()
Tiles ==
    /\ reader # <<>> /\ reader.ok
    /\ rdOut' = [op |-> "tiles", args |-> <<>>, val |-> GraphReader_tiles(reader.value)]
    /\ UNCHANGED <<cfg, reader, notRd>>

\* reader.graph_tile(id), then id() and directededges().len() of the tile
GraphTileLookup ==
    /\ reader # <<>> /\ reader.ok
    /\ \E id \in LookupIds :
        LET t == GraphReader_graph_tile(reader.value, id)
        IN rdOut' = [op |-> "graph_tile", args |-> <<id>>,
                     val |-> IF t = None THEN None
                             ELSE Some([id |-> GraphTile_id(t[1]),
                                        edges |-> EdgesLen(t[1])])]
    /\ UNCHANGED <<cfg, reader, notRd>>

\* reader.traffic_tile(id), then id() and edge_count() of the traffic tile
TrafficTileLookup ==
    /\ reader # <<>> /\ reader.ok
    /\ \E id \in LookupIds :
        LET t == GraphReader_traffic_tile(reader.value, id)
        IN rdOut' = [op |-> "traffic_tile", args |-> <<id>>,
                     val |-> IF t = None THEN None
                             ELSE Some([id |-> t[1].tile_id,
                                        edge_count |-> t[1].edge_count])]
    /\ UNCHANGED <<cfg, reader, notRd>>

\* the ids tiles() returns
TilesIds == {GraphReader_tiles(reader.value)[k] : k \in TileIndexes}

\* C16: for every id of tiles(), graph_tile(id) is a tile with that id and,
\* with the traffic archive loaded, traffic_tile(id) is a traffic tile with
\* that id and as many edges as the graph tile has directed edges; for an id
\* whose tile is not in the archive both lookups return None.
C16_TileLookup ==
    /\ (rdOut # <<>> /\ rdOut.op = "graph_tile") =>
           IF rdOut.args[1] \in TilesIds
           THEN rdOut.val # None /\ rdOut.val[1].id = rdOut.args[1]
           ELSE rdOut.val = None
    /\ (rdOut # <<>> /\ rdOut.op = "traffic_tile") =>
           IF rdOut.args[1] \in TilesIds
           THEN reader.value.traffic =>
                    /\ rdOut.val # None
                    /\ rdOut.val[1].id = rdOut.args[1]
                    /\ \E k \in TileIndexes :
                           /\ TileIdOf(k) = rdOut.args[1]
                           /\ rdOut.val[1].edge_count = EdgesLen(k)
           ELSE rdOut.val = None

\* the traffic tile of the third tile has been found with its three edges
C16_Witness ==
    /\ rdOut # <<>>
    /\ rdOut.op = "traffic_tile"
    /\ rdOut.args[1] = TileIdOf(3)
    /\ rdOut.val # None
    /\ rdOut.val[1].edge_count = 3

\* C17: GraphReader::new succeeds exactly when the tiles archive exists and
\* is well formed, whatever the traffic archive is; without a usable traffic
\* archive traffic_tile(id) is None for every id and graph_tile keeps working.
C17_ConstructionNeedsTilesOnly ==
    /\ reader # <<>> => (reader.ok <=> cfg.tiles = "ok")
    /\ (rdOut # <<>> /\ rdOut.op = "traffic_tile" /\ cfg.traffic # "ok") =>
           rdOut.val = None
    /\ (rdOut # <<>> /\ rdOut.op = "graph_tile" /\ rdOut.args[1] \in TilesIds) =>
           rdOut.val # None

\* with a malformed traffic archive the reader was built, and a graph tile
\* was found
C17_Witness ==
    /\ cfg.tiles = "ok"
    /\ cfg.traffic = "malformed"
    /\ reader # <<>>
    /\ reader.ok
    /\ rdOut.op = "graph_tile"
    /\ rdOut.val # None

---------------------------------------------------------------------------
(* Graph tile: records by index                                            *)

\* size_of DirectedEdge, NodeInfo and NodeTransition: `data: [u64; 6]`,
\* `[u64; 4]` and `[u64; 1]`
DirectedEdgeSize == 6 * 8
NodeInfoSize == 4 * 8
NodeTransitionSize == 1 * 8

\* where the tiles archive is mapped, each tile's blob in it, and the three
\* arrays inside a blob, one after the other
NodesAt(tile) == tile * 65536 + 272
TransitionsAt(tile) == NodesAt(tile) + NodesLen(tile) * NodeInfoSize
EdgesAt(tile) == TransitionsAt(tile) + TransitionsLen(tile) * NodeTransitionSize

\* ffi::directededges / nodes / transitions: a slice is a pointer and a length
ffi_directededges(tile) == [ptr |-> EdgesAt(tile), len |-> EdgesLen(tile)]
ffi_nodes(tile) == [ptr |-> NodesAt(tile), len |-> NodesLen(tile)]
ffi_transitions(tile) == [ptr |-> TransitionsAt(tile), len |-> TransitionsLen(tile)]
\* the address of slice[i] for records of the given size
ElementAt(slice, size, i) == slice.ptr + i * size

\* ffi::GraphTile::directededge / node / transition: a pointer to the record,
\* or an exception past the end
ffi_directededge(tile, index) ==
    IF index < EdgesLen(tile)
    THEN [ok |-> TRUE, ptr |-> EdgesAt(tile) + index * DirectedEdgeSize]
    ELSE [ok |-> FALSE, ptr |-> 0]
ffi_node(tile, index) ==
    IF index < NodesLen(tile)
    THEN [ok |-> TRUE, ptr |-> NodesAt(tile) + index * NodeInfoSize]
    ELSE [ok |-> FALSE, ptr |-> 0]
ffi_transition(tile, index) ==
    IF index < TransitionsLen(tile)
    THEN [ok |-> TRUE, ptr |-> TransitionsAt(tile) + index * NodeTransitionSize]
    ELSE [ok |-> FALSE, ptr |-> 0]

\* Ok(ptr) if !ptr.is_null() => Some(&*ptr), _ => None
SomeIfNonNull(r) == IF r.ok /\ r.ptr # 0 THEN Some(r.ptr) ELSE None

\* a directededge that narrows its index to 16 bits on the way to the tile
GraphTile_directededge_u16(tile, index) ==
    SomeIfNonNull(ffi_directededge(tile, index % 65536))

\* GraphTile::directededge, node, transition
GraphTile_directededge(tile, index) == SomeIfNonNull(ffi_directededge(tile, index))
GraphTile_node(tile, index) == SomeIfNonNull(ffi_node(tile, index))
GraphTile_transition(tile, index) == SomeIfNonNull(ffi_transition(tile, index))

\* u32 indexes tried: the first few, one that is 0 in its low 16 bits, and
\* the largest representable here
IndexArgs == (0..4) \cup {65536, 2147483647}

\* the traffic tile of a graph tile, before any write
TrafficHeaderOf(tile) ==
    [last_update |-> 0, spare |-> 0, edge_count |-> EdgesLen(tile),
     tile_id |-> GraphTile_id(tile)]
TrafficSpeedsOf(tile) == [e \in 0..(EdgesLen(tile) - 1) |-> LiveTraffic_UNKNOWN]

\* tile.directededge(i), tile.node(i), tile.transition(i)
RecordByIndex ==
    /\ reader # <<>> /\ reader.ok
    /\ \E tile \in TileIndexes, i \in IndexArgs :
        \/ rdOut' = [op |-> "directededge", args |-> <<tile, i>>,
                     val |-> GraphTile_directededge(tile, i)]
        \/ rdOut' = [op |-> "node", args |-> <<tile, i>>,
                     val |-> GraphTile_node(tile, i)]
        \/ rdOut' = [op |-> "transition", args |-> <<tile, i>>,
                     val |-> GraphTile_transition(tile, i)]
    /\ UNCHANGED <<cfg, reader, notRd>>

\* traffic_tile.edge_traffic(i) on the traffic tile of a graph tile
TrafficByIndex ==
    /\ reader # <<>> /\ reader.ok /\ reader.value.traffic
    /\ \E tile \in TileIndexes, i \in IndexArgs :
        rdOut' = [op |-> "edge_traffic", args |-> <<tile, i>>,
                  val |-> TrafficTile_edge_traffic(TrafficHeaderOf(tile),
                                                   TrafficSpeedsOf(tile), i)]
    /\ UNCHANGED <<cfg, reader, notRd>>

\* C14: directededge(i) is the address of directededges()[i] when i is below
\* the length of the slice and None at or past it; the same for node(i) and
\* nodes(), transition(i) and transitions(); edge_traffic(i) is None exactly
\* when i >= edge_count.
C14_RecordByIndex ==
    rdOut # <<>> =>
        LET tile == rdOut.args[1]
            i == rdOut.args[2]
        IN /\ rdOut.op = "directededge" =>
                  rdOut.val = IF i < ffi_directededges(tile).len
                              THEN Some(ElementAt(ffi_directededges(tile), DirectedEdgeSize, i))
                              ELSE None
           /\ rdOut.op = "node" =>
                  rdOut.val = IF i < ffi_nodes(tile).len
                              THEN Some(ElementAt(ffi_nodes(tile), NodeInfoSize, i))
                              ELSE None
           /\ rdOut.op = "transition" =>
                  rdOut.val = IF i < ffi_transitions(tile).len
                              THEN Some(ElementAt(ffi_transitions(tile), NodeTransitionSize, i))
                              ELSE None
           /\ rdOut.op = "edge_traffic" =>
                  (rdOut.val = None <=> i >= ffi_edge_count(TrafficHeaderOf(tile)))

\* the last edge of the third tile was found at its place in the slice
C14_Witness ==
    /\ rdOut # <<>>
    /\ rdOut.op = "directededge"
    /\ rdOut.args = <<3, 2>>
    /\ rdOut.val = Some(EdgesAt(3) + 96)

---------------------------------------------------------------------------
(* Graph tile: accessors that take a node or an edge                       *)

\* ref_within_slice: item_pos.wrapping_sub(start) < size_of_val(slice); for
\* an item below the start the difference wraps to 2^64 - (start - item_pos),
\* which is above the size of every slice
ref_within_slice_no_upper_bound(slice, size, item) == item >= slice.ptr

ref_within_slice(slice, size, item) ==
    IF item >= slice.ptr
    THEN item - slice.ptr < slice.len * size
    ELSE FALSE

\* the accessors that take a &NodeInfo and those that take a &DirectedEdge
NodeAccessors == {"node_latlon", "node_edges", "node_transitions"}
EdgeAccessors == {"edgeinfo", "live_speed", "edge_closed", "edge_speed"}

\* a record on the caller's stack, outside every mapping
StackAddress == 2000000000
\* the references a caller can hold: a record of some tile, or a copy
NodeRefs ==
    UNION {{ElementAt(ffi_nodes(t), NodeInfoSize, i) : i \in 0..(NodesLen(t) - 1)} :
               t \in TileIndexes} \cup {StackAddress}
EdgeRefs ==
    UNION {{ElementAt(ffi_directededges(t), DirectedEdgeSize, i) :
                i \in 0..(EdgesLen(t) - 1)} : t \in TileIndexes} \cup {StackAddress}

\* whether the reference is one of the tile's own records
OwnRecord(tile, acc, ref) ==
    IF acc \in NodeAccessors
    THEN \E i \in 0..(NodesLen(tile) - 1) : ref = NodesAt(tile) + i * NodeInfoSize
    ELSE \E i \in 0..(EdgesLen(tile) - 1) : ref = EdgesAt(tile) + i * DirectedEdgeSize

\* one accessor call: debug_assert!(ref_within_slice(..), "Wrong tile") when
\* the build has debug assertions, then the ffi call; for a pointer outside
\* the tile's array the ffi call has no defined outcome
GraphTile_accessor(debug, tile, acc, ref) ==
    LET within == IF acc \in NodeAccessors
                  THEN ref_within_slice(ffi_nodes(tile), NodeInfoSize, ref)
                  ELSE ref_within_slice(ffi_directededges(tile), DirectedEdgeSize, ref)
    IN IF debug /\ ~within THEN {"panic: Wrong tile"}
       ELSE IF OwnRecord(tile, acc, ref) THEN {"served"}
       ELSE {"served", "crashed"}

\* tile.node_latlon(node), ..., tile.edge_speed(de, ..)
Accessor ==
    /\ reader # <<>> /\ reader.ok
    /\ \E tile \in TileIndexes, acc \in NodeAccessors \cup EdgeAccessors :
        \E ref \in IF acc \in NodeAccessors THEN NodeRefs ELSE EdgeRefs :
            \E o \in GraphTile_accessor(cfg.debug, tile, acc, ref) :
                rdOut' = [op |-> acc, args |-> <<tile, ref>>, val |-> o]
    /\ UNCHANGED <<cfg, reader, notRd>>

\* C15 as claimed: a reference from another tile always ends in the panic
\* 'Wrong tile', and an accessor serves only a record of its own tile.
C15_WrongTileAlwaysDetected ==
    (rdOut # <<>> /\ rdOut.op \in NodeAccessors \cup EdgeAccessors) =>
        /\ ~OwnRecord(rdOut.args[1], rdOut.op, rdOut.args[2]) =>
               rdOut.val = "panic: Wrong tile"
        /\ rdOut.val = "served" => OwnRecord(rdOut.args[1], rdOut.op, rdOut.args[2])

\* C15: in a build with debug assertions a reference from another tile
\* always ends in the panic 'Wrong tile', and an accessor serves only a
\* record of its own tile.
C15_WrongTileDetectedInDebug ==
    (cfg # <<>> /\ cfg.debug /\ rdOut # <<>>
     /\ rdOut.op \in NodeAccessors \cup EdgeAccessors) =>
        /\ ~OwnRecord(rdOut.args[1], rdOut.op, rdOut.args[2]) =>
               rdOut.val = "panic: Wrong tile"
        /\ rdOut.val = "served" => OwnRecord(rdOut.args[1], rdOut.op, rdOut.args[2])

\* the first tile was handed the first edge of the second tile, and panicked
C15_Witness ==
    /\ cfg.debug
    /\ rdOut # <<>>
    /\ rdOut.op = "edgeinfo"
    /\ rdOut.args = <<1, EdgesAt(2)>>
    /\ rdOut.val = "panic: Wrong tile"

---------------------------------------------------------------------------
(* Tileset: tiles in a bounding box                                        *)

\* GraphLevel: Highway = 0, Arterial = 1, Local = 2
GraphLevels == {0, 1, 2}

\* the tile grid, in quarter degrees: tiles of 4, 1 and 0.25 degrees, numbered
\* row by row from (-90, -180)
TileSide(level) == CASE level = 0 -> 16 [] level = 1 -> 4 [] OTHER -> 1
TileColumns(level) == 1440 \div TileSide(level)
TileBox(level, tileid) ==
    LET row == tileid \div TileColumns(level)
        col == tileid % TileColumns(level)
    IN [min_lat |-> row * TileSide(level) - 360,
        min_lon |-> col * TileSide(level) - 720,
        max_lat |-> (row + 1) * TileSide(level) - 360,
        max_lon |-> (col + 1) * TileSide(level) - 720]

\* `as f32` of a coordinate: the coordinates used here are multiples of a
\* quarter degree up to 180, which f32 holds exactly
AsF32(q) == q

\* ffi::TileSet::tiles_in_bbox: the ids of the archive's tiles of the level
\* whose coverage rectangle meets the query rectangle
ffi_tiles_in_bbox(ts, min_lat, min_lon, max_lat, max_lon, level) ==
    {TileIdOf(k) : k \in
        {j \in TileIndexes :
            /\ ArchiveTiles[j].level = level
            /\ LET b == TileBox(level, ArchiveTiles[j].tileid)
               IN /\ b.min_lat <= max_lat /\ min_lat <= b.max_lat
                  /\ b.min_lon <= max_lon /\ min_lon <= b.max_lon}}

\* a tiles_in_bbox that passes (lon, lat) where (lat, lon) is expected
GraphReader_tiles_in_bbox_lon_lat(ts, min, max, level) ==
    ffi_tiles_in_bbox(ts, AsF32(min[2]), AsF32(min[1]), AsF32(max[2]), AsF32(max[1]), level)

\* GraphReader::tiles_in_bbox: min and max are LatLon(lat, lon)
GraphReader_tiles_in_bbox(ts, min, max, level) ==
    ffi_tiles_in_bbox(ts, AsF32(min[1]), AsF32(min[2]), AsF32(max[1]), AsF32(max[2]), level)

\* (-90, -180) to (90, 180)
WorldBox == <<<<-360, -720>>, <<360, 720>>>>
\* query rectangles: the world, one around the three tiles over Andorra, one
\* around the fourth tile, one over open sea, and a single point
BoxSamples ==
    {WorldBox,
     <<<<169, 5>>, <<171, 8>>>>,
     <<<<140, 556>>, <<144, 562>>>>,
     <<<<0, -120>>, <<8, -100>>>>,
     <<<<170, 6>>, <<170, 6>>>>}

\* reader.tiles_in_bbox(min, max, level)
TilesInBbox ==
    /\ reader # <<>> /\ reader.ok
    /\ \E box \in BoxSamples, level \in GraphLevels :
        rdOut' = [op |-> "tiles_in_bbox", args |-> <<box, level>>,
                  val |-> GraphReader_tiles_in_bbox(reader.value, box[1], box[2], level)]
    /\ UNCHANGED <<cfg, reader, notRd>>

\* C18: for each level L, tiles_in_bbox over the whole world is the set of
\* the ids of tiles() whose level is L; every id returned for any box has
\* level L and id 0 and is its own tile base.
C18_TilesInBbox ==
    (rdOut # <<>> /\ rdOut.op = "tiles_in_bbox") =>
        /\ \A id \in rdOut.val :
               /\ GraphId_level(id) = rdOut.args[2]
               /\ GraphId_id(id) = 0
               /\ GraphId_tile(id) = id
        /\ rdOut.args[1] = WorldBox =>
               rdOut.val = {id \in TilesIds : GraphId_level(id) = rdOut.args[2]}

\* the world at level 2 gave both level 2 tiles
C18_Witness ==
    /\ rdOut # <<>>
    /\ rdOut.op = "tiles_in_bbox"
    /\ rdOut.args = <<WorldBox, 2>>
    /\ rdOut.val = {TileIdOf(3), TileIdOf(4)}

---------------------------------------------------------------------------
(* Graph tile: nodes, their edges and the edges' ends                      *)

\* Access: a bit mask, modelled as the set of its flags
Access_ALL ==
    {"AUTO", "PEDESTRIAN", "BICYCLE", "TRUCK", "EMERGENCY", "TAXI", "BUS", "HOV",
     "WHEELCHAIR", "MOPED", "MOTORCYCLE"}

\* the NodeInfo records of the archive's tiles: the run of outbound edges,
\* the run of transitions and the access mask of each node
TileNodes ==
    <<<<[edge_index |-> 0, edge_count |-> 2, transition_index |-> 0,
         transition_count |-> 1, access |-> Access_ALL]>>,
      <<[edge_index |-> 0, edge_count |-> 1, transition_index |-> 0,
         transition_count |-> 1, access |-> Access_ALL],
        [edge_index |-> 1, edge_count |-> 0, transition_index |-> 1,
         transition_count |-> 1, access |-> {"AUTO", "TRUCK"}]>>,
      <<[edge_index |-> 0, edge_count |-> 1, transition_index |-> 0,
         transition_count |-> 0, access |-> Access_ALL],
        [edge_index |-> 1, edge_count |-> 2, transition_index |-> 0,
         transition_count |-> 0, access |-> {"PEDESTRIAN", "BICYCLE"}]>>,
      <<[edge_index |-> 0, edge_count |-> 1, transition_index |-> 0,
         transition_count |-> 1, access |-> Access_ALL]>>>>

\* a DirectedEdge record, with the way_id of its EdgeInfo
Edge(level, tileid, id, opp_index, shortcut, leaves, forwardaccess, toll, way_id) ==
    [endnode |-> ffi_from_parts(level, tileid, id).value, opp_index |-> opp_index,
     is_shortcut |-> shortcut, leaves_tile |-> leaves,
     forwardaccess |-> forwardaccess, toll |-> toll, way_id |-> way_id]

\* the DirectedEdge records of the archive's tiles: a loop of two edges; a
\* shortcut; a toll tunnel between two nodes, open to cars only, and a road
\* to the next tile; the road back
TileEdges ==
    <<<<Edge(0, 3015, 0, 1, FALSE, FALSE, Access_ALL, FALSE, 11),
        Edge(0, 3015, 0, 0, FALSE, FALSE, Access_ALL, FALSE, 11)>>,
      <<Edge(1, 47701, 1, 0, TRUE, FALSE, {"AUTO", "TRUCK"}, FALSE, 0)>>,
      <<Edge(2, 763926, 1, 0, FALSE, FALSE, {"AUTO"}, TRUE, 6176755),
        Edge(2, 763926, 0, 0, FALSE, FALSE, {"AUTO"}, TRUE, 6176755),
        Edge(2, 724159, 0, 0, FALSE, TRUE, Access_ALL, FALSE, 33)>>,
      <<Edge(2, 763926, 1, 1, FALSE, TRUE, {"PEDESTRIAN", "BICYCLE"}, FALSE, 33)>>>>

\* the record a reference into the tile's nodes or directed edges points at
NodeOf(tile, ref) == TileNodes[tile][((ref - NodesAt(tile)) \div NodeInfoSize) + 1]
EdgeOf(tile, ref) == TileEdges[tile][((ref - EdgesAt(tile)) \div DirectedEdgeSize) + 1]

\* ffi::node_edges / node_transitions: the node's run of the tile's array
ffi_node_edges(tile, node) ==
    [ptr |-> EdgesAt(tile) + NodeOf(tile, node).edge_index * DirectedEdgeSize,
     len |-> NodeOf(tile, node).edge_count]
ffi_node_transitions(tile, node) ==
    [ptr |-> TransitionsAt(tile)
                 + NodeOf(tile, node).transition_index * NodeTransitionSize,
     len |-> NodeOf(tile, node).transition_count]

\* a node_edges that hands out all directed edges of the tile
GraphTile_node_edges_whole_tile(tile, node) == ffi_directededges(tile)

\* GraphTile::node_edges, node_transitions
GraphTile_node_edges(tile, node) == ffi_node_edges(tile, node)
GraphTile_node_transitions(tile, node) == ffi_node_transitions(tile, node)

\* a range that takes in the record after the run
NodeInfo_edges_inclusive(n) ==
    [start |-> n.edge_index, end |-> n.edge_index + n.edge_count + 1]

\* NodeInfo::edges, NodeInfo::transitions: start..start + count
NodeInfo_edges(n) == [start |-> n.edge_index, end |-> n.edge_index + n.edge_count]
NodeInfo_transitions(n) ==
    [start |-> n.transition_index, end |-> n.transition_index + n.transition_count]

\* &slice[range]: the part of the slice, or a panic for a range that does
\* not lie within it
Index(slice, size, range) ==
    IF range.start <= range.end /\ range.end <= slice.len
    THEN [ok |-> TRUE, ptr |-> slice.ptr + range.start * size,
          len |-> range.end - range.start]
    ELSE [ok |-> FALSE, ptr |-> 0, len |-> 0]

\* tile.node_edges(n), tile.node_transitions(n), and the arrays of the tile
\* cut with n.edges() and n.transitions(), for a node n = tile.node(i)
NodeRuns ==
    /\ reader # <<>> /\ reader.ok
    /\ \E tile \in TileIndexes :
        \E i \in 0..(NodesLen(tile) - 1) :
            LET n == GraphTile_node(tile, i)[1]
            IN rdOut' =
                [op |-> "node_runs", args |-> <<tile, i>>,
                 val |-> [edges |-> GraphTile_node_edges(tile, n),
                          edges_cut |-> Index(ffi_directededges(tile), DirectedEdgeSize,
                                              NodeInfo_edges(NodeOf(tile, n))),
                          transitions |-> GraphTile_node_transitions(tile, n),
                          transitions_cut |->
                              Index(ffi_transitions(tile), NodeTransitionSize,
                                    NodeInfo_transitions(NodeOf(tile, n)))]]
    /\ UNCHANGED <<cfg, reader, notRd>>

\* C25: for every node n of a tile, node_edges(n) is the run
\* directededges()[n.edge_index() .. n.edge_index() + n.edge_count()] of that
\* tile, at the same addresses and of length n.edge_count(), node_transitions(n)
\* is likewise the run of transitions(), and both runs lie within the arrays.
C25_NodeRuns ==
    (rdOut # <<>> /\ rdOut.op = "node_runs") =>
        LET tile == rdOut.args[1]
            n == TileNodes[tile][rdOut.args[2] + 1]
            v == rdOut.val
        IN /\ v.edges_cut.ok
           /\ v.edges.ptr = v.edges_cut.ptr
           /\ v.edges.len = v.edges_cut.len
           /\ v.edges.len = n.edge_count
           /\ v.edges.ptr = ElementAt(ffi_directededges(tile), DirectedEdgeSize, n.edge_index)
           /\ n.edge_index + n.edge_count <= EdgesLen(tile)
           /\ v.transitions_cut.ok
           /\ v.transitions.ptr = v.transitions_cut.ptr
           /\ v.transitions.len = v.transitions_cut.len
           /\ v.transitions.len = n.transition_count
           /\ v.transitions.ptr =
                  ElementAt(ffi_transitions(tile), NodeTransitionSize, n.transition_index)
           /\ n.transition_index + n.transition_count <= TransitionsLen(tile)

\* the second node of the third tile has the tile's last two edges
C25_Witness ==
    /\ rdOut # <<>>
    /\ rdOut.op = "node_runs"
    /\ rdOut.args = <<3, 1>>
    /\ rdOut.val.edges = [ptr |-> EdgesAt(3) + DirectedEdgeSize, len |-> 2]
    /\ rdOut.val.transitions.len = 0

\* the walk of the reverse_edge test from the edge at index k of the tile:
\* to the node the edge ends at, to the opposing edge among that node's edges,
\* and to the node that one ends at; an unwrap of None or an index past a
\* slice's end panics
ReverseWalk(tile, k) ==
    LET de == EdgeOf(tile, GraphTile_directededge(tile, k)[1])
        end_node == GraphTile_node(tile, GraphId_id(de.endnode))
        edges == GraphTile_node_edges(tile, end_node[1])
        opp_de == EdgeOf(tile, ElementAt(edges, DirectedEdgeSize, de.opp_index))
        begin_node == GraphTile_node(tile, GraphId_id(opp_de.endnode))
        panic == [status |-> "panic", index |-> 0, way_id |-> 0, opp_way_id |-> 0]
    IN IF de.leaves_tile \/ de.is_shortcut
       THEN [status |-> "skipped", index |-> 0, way_id |-> 0, opp_way_id |-> 0]
       ELSE IF end_node = None THEN panic
       ELSE IF de.opp_index >= edges.len THEN panic
       ELSE IF begin_node = None THEN panic
       ELSE [status |-> "done",
             index |-> NodeOf(tile, begin_node[1]).edge_index + opp_de.opp_index,
             way_id |-> de.way_id, opp_way_id |-> opp_de.way_id]

\* the walk, for an edge of a tile
ReverseEdge ==
    /\ reader # <<>> /\ reader.ok
    /\ \E tile \in TileIndexes :
        \E k \in 0..(EdgesLen(tile) - 1) :
            rdOut' = [op |-> "reverse_edge", args |-> <<tile, k>>,
                      val |-> ReverseWalk(tile, k)]
    /\ UNCHANGED <<cfg, reader, notRd>>

\* C26: for every edge e at index k of a tile T that is no shortcut and does
\* not leave T, with n1 = T.node(e.endnode().id()) and
\* opp = T.node_edges(n1)[e.opp_index()], the node n0 = T.node(opp.endnode().id())
\* exists, k = n0.edge_index() + opp.opp_index(), and e and opp have the same
\* way_id.
C26_OpposingEdgeLeadsBack ==
    (rdOut # <<>> /\ rdOut.op = "reverse_edge") =>
        LET e == TileEdges[rdOut.args[1]][rdOut.args[2] + 1]
        IN (~e.is_shortcut /\ ~e.leaves_tile) =>
               /\ rdOut.val.status = "done"
               /\ rdOut.val.index = rdOut.args[2]
               /\ rdOut.val.way_id = rdOut.val.opp_way_id

\* the second edge of the tunnel was walked back to itself
C26_Witness ==
    /\ rdOut # <<>>
    /\ rdOut.op = "reverse_edge"
    /\ rdOut.args = <<3, 1>>
    /\ rdOut.val = [status |-> "done", index |-> 1, way_id |-> 6176755,
                    opp_way_id |-> 6176755]

\* e.leaves_tile(), e.endnode().tile() != tile.id().tile(), and
\* reader.graph_tile(e.endnode()) for an edge e of a tile
FollowEdge ==
    /\ reader # <<>> /\ reader.ok
    /\ \E tile \in TileIndexes :
        \E k \in 0..(EdgesLen(tile) - 1) :
            LET de == EdgeOf(tile, GraphTile_directededge(tile, k)[1])
            IN rdOut' =
                [op |-> "follow_edge", args |-> <<tile, k>>,
                 val |-> [leaves_tile |-> de.leaves_tile,
                          other_tile |-> ~GraphId_eq(GraphId_tile(de.endnode),
                                                     GraphId_tile(GraphTile_id(tile))),
                          end_tile |-> GraphReader_graph_tile(reader.value, de.endnode)]]
    /\ UNCHANGED <<cfg, reader, notRd>>

\* C27: for every edge e of every tile T of the tileset, e.leaves_tile() is
\* true exactly when the tile base of e.endnode() differs from T's id, and
\* then graph_tile finds the tile of e.endnode().
C27_LeavingEdgesLeadToATile ==
    (rdOut # <<>> /\ rdOut.op = "follow_edge") =>
        /\ rdOut.val.leaves_tile = rdOut.val.other_tile
        /\ rdOut.val.leaves_tile =>
               /\ rdOut.val.end_tile # None
               /\ GraphTile_id(rdOut.val.end_tile[1])
                      = GraphId_tile(TileEdges[rdOut.args[1]][rdOut.args[2] + 1].endnode)

\* the edge of the fourth tile leads to the second node of the third
C27_Witness ==
    /\ rdOut # <<>>
    /\ rdOut.op = "follow_edge"
    /\ rdOut.args = <<4, 0>>
    /\ rdOut.val = [leaves_tile |-> TRUE, other_tile |-> TRUE, end_tile |-> Some(3)]

---------------------------------------------------------------------------
(* Costing model                                                           *)

\* proto::costing::Type, the travel modes tried
CostingTypes == {"Auto", "Bicycle", "Pedestrian"}
\* the Access flag of a travel mode
ModeAccess(type) ==
    CASE type = "Auto" -> "AUTO"
      [] type = "Bicycle" -> "BICYCLE"
      [] type = "Pedestrian" -> "PEDESTRIAN"

\* ffi::new_cost: the DynamicCost of the serialized proto::Costing
ffi_new_cost(costing) ==
    [access_mask |-> {ModeAccess(costing.type)}, exclude_tolls |-> costing.exclude_tolls]

\* DynamicCost::NodeAllowed: the mode's flag is in the node's access mask
NodeAllowed(cost, n) == cost.access_mask \cap n.access # {}
\* DynamicCost::IsAccessible: the mode's flag is in the edge's forward access
\* mask and no exclusion of the model fires on the edge
IsAccessible(cost, e) ==
    /\ cost.access_mask \cap e.forwardaccess # {}
    /\ ~(cost.exclude_tolls /\ e.toll)

\* a constructor that makes a car model whatever type it is given
CostingModel_new_always_auto(costing_type) ==
    ffi_new_cost([type |-> "Auto", exclude_tolls |-> FALSE])

\* CostingModel::new: the type with default options
CostingModel_new(costing_type) ==
    ffi_new_cost([type |-> costing_type, exclude_tolls |-> FALSE])
\* CostingModel::with_options
CostingModel_with_options(costing) == ffi_new_cost(costing)

\* CostingModel::node_accessible, edge_accessible
CostingModel_node_accessible(cost, n) == NodeAllowed(cost, n)
CostingModel_edge_accessible(cost, e) == IsAccessible(cost, e)

\* the proto::Costing messages tried with with_options
CostingOptions == [type : CostingTypes, exclude_tolls : BOOLEAN]

\* the model a call of the test makes: new(type) for default options,
\* with_options otherwise
MakeCosting(costing) ==
    IF costing.exclude_tolls
    THEN CostingModel_with_options(costing)
    ELSE CostingModel_new(costing.type)

\* costing.node_accessible(tile.node(i)), costing.edge_accessible(tile.directededge(k))
Accessible ==
    /\ reader # <<>> /\ reader.ok
    /\ \E costing \in CostingOptions, tile \in TileIndexes :
        \/ \E i \in 0..(NodesLen(tile) - 1) :
               rdOut' = [op |-> "node_accessible", args |-> <<costing, tile, i>>,
                         val |-> CostingModel_node_accessible(MakeCosting(costing),
                                     NodeOf(tile, GraphTile_node(tile, i)[1]))]
        \/ \E k \in 0..(EdgesLen(tile) - 1) :
               rdOut' = [op |-> "edge_accessible", args |-> <<costing, tile, k>>,
                         val |-> CostingModel_edge_accessible(MakeCosting(costing),
                                     EdgeOf(tile, GraphTile_directededge(tile, k)[1]))]
    /\ UNCHANGED <<cfg, reader, notRd>>

NextReader ==
    \/ New \/ Tiles \/ GraphTileLookup \/ TrafficTileLookup
    \/ RecordByIndex \/ TrafficByIndex \/ Accessor
    \/ TilesInBbox
    \/ NodeRuns \/ ReverseEdge \/ FollowEdge
    \/ Accessible

SpecReader == InitReader /\ [][NextReader]_vars

---------------------------------------------------------------------------
(* Actor: responses                                                        *)

\* proto::options::Format
Format_Json == 0
Format_Gpx == 1
Format_Osrm == 2
Format_Pbf == 3
Format_Geotiff == 4

\* String::from_utf8_lossy, for the bytes used here (ASCII, and 0xFF, which
\* is no part of any UTF-8 sequence): the text as code points, U+FFFD in the
\* place of each 0xFF
from_utf8_lossy(bytes) == [k \in DOMAIN bytes |-> IF bytes[k] < 128 THEN bytes[k] ELSE 65533]

\* prost decoding of a message whose keys and lengths take one byte each:
\* the fields as <<number, wire type, value>>, or an error for a truncated
\* field or a wire type other than varint (0) and length-delimited (2)
RECURSIVE Fields(_)
Fields(bytes) ==
    IF bytes = <<>> THEN [ok |-> TRUE, value |-> <<>>]
    ELSE LET key == bytes[1]
             wire == key % 8
             number == key \div 8
         IN IF key >= 128 \/ number = 0 \/ Len(bytes) < 2 THEN [ok |-> FALSE, value |-> <<>>]
            ELSE IF wire = 0
            THEN IF bytes[2] >= 128 THEN [ok |-> FALSE, value |-> <<>>]
                 ELSE LET rest == Fields(SubSeq(bytes, 3, Len(bytes)))
                      IN [ok |-> rest.ok,
                          value |-> <<<<number, wire, bytes[2]>>>> \o rest.value]
            ELSE IF wire = 2
            THEN IF bytes[2] >= 128 \/ Len(bytes) < 2 + bytes[2]
                 THEN [ok |-> FALSE, value |-> <<>>]
                 ELSE LET rest == Fields(SubSeq(bytes, 3 + bytes[2], Len(bytes)))
                      IN [ok |-> rest.ok,
                          value |-> <<<<number, wire, SubSeq(bytes, 3, 2 + bytes[2])>>>>
                                        \o rest.value]
            ELSE [ok |-> FALSE, value |-> <<>>]
\* proto::Api::decode
Api_decode(bytes) == Fields(bytes)

\* a conversion that knows Format::Json only
Response_from_json_only(response) ==
    IF response.format = Format_Pbf
    THEN LET api == Api_decode(response.data)
         IN IF api.ok THEN [variant |-> "Pbf", payload |-> api.value]
            ELSE [variant |-> "panic", payload |-> <<>>]
    ELSE IF response.format = Format_Json
    THEN [variant |-> "Json", payload |-> from_utf8_lossy(response.data)]
    ELSE [variant |-> "Other", payload |-> response.data]

\* impl From<ffi::Response> for Response; `expect` panics when the bytes
\* declared Pbf do not decode
Response_from(response) ==
    IF response.format = Format_Pbf
    THEN LET api == Api_decode(response.data)
         IN IF api.ok THEN [variant |-> "Pbf", payload |-> api.value]
            ELSE [variant |-> "panic", payload |-> <<>>]
    ELSE IF response.format = Format_Json \/ response.format = Format_Osrm
    THEN [variant |-> "Json", payload |-> from_utf8_lossy(response.data)]
    ELSE [variant |-> "Other", payload |-> response.data]

\* the endpoints of the actor
Endpoints ==
    {"route", "locate", "matrix", "optimized_route", "isochrone", "trace_route",
     "trace_attributes", "transit_available", "expansion", "centroid", "status"}
\* the formats a request asks for
RequestFormats == {Format_Json, Format_Osrm, Format_Pbf, Format_Gpx, Format_Geotiff}

\* a backend that answers in Gpx whenever it is asked to
DeclaredFormat_gpx_everywhere(endpoint, format) ==
    IF endpoint \in {"locate", "transit_available"} THEN Format_Json
    ELSE IF format = Format_Pbf THEN Format_Pbf
    ELSE IF format = Format_Gpx THEN Format_Gpx
    ELSE IF format = Format_Osrm /\ endpoint # "centroid" THEN Format_Osrm
    ELSE Format_Json

\* the format the backend declares for its answer to a request it accepts
DeclaredFormat(endpoint, format) ==
    IF endpoint \in {"locate", "transit_available"} THEN Format_Json
    ELSE IF format = Format_Pbf THEN Format_Pbf
    ELSE IF format = Format_Gpx /\ endpoint \in {"route", "optimized_route", "trace_route"}
    THEN Format_Gpx
    ELSE IF format = Format_Osrm /\ endpoint # "centroid" THEN Format_Osrm
    ELSE Format_Json

\* the bytes the backend answers with in each format: "{}", a one-field
\* message, "<gpx/>"
AnswerBytes(format) ==
    IF format = Format_Pbf THEN <<8, 1>>
    ELSE IF format = Format_Gpx THEN <<60, 103, 112, 120, 47, 62>>
    ELSE <<123, 125>>

\* ffi::Actor::route, locate, ...: the answer with its declared format, or
\* an exception for a request the backend rejects
ffi_endpoint(endpoint, request) ==
    IF request.valid
    THEN [ok |-> TRUE,
          format |-> DeclaredFormat(endpoint, request.format),
          data |-> AnswerBytes(DeclaredFormat(endpoint, request.format))]
    ELSE [ok |-> FALSE, format |-> Format_Json, data |-> <<>>]

\* Actor::INPUT_BUFFER_SIZE = 1024
INPUT_BUFFER_SIZE == 1024

\* Actor::act: encode the request, call the endpoint, drop a buffer that
\* grew past INPUT_BUFFER_SIZE, and convert the answer or pass the error on
Actor_act(endpoint, request, capacity) ==
    LET grown == IF request.encoded_len > capacity THEN request.encoded_len ELSE capacity
        result == ffi_endpoint(endpoint, request)
    IN [capacity |-> IF grown > INPUT_BUFFER_SIZE THEN INPUT_BUFFER_SIZE ELSE grown,
        result |-> IF result.ok
                   THEN Response_from(result)
                   ELSE [variant |-> "Err", payload |-> <<>>]]

\* a locate that was wired to the route endpoint
Actor_locate_as_route(request, capacity) == Actor_act("route", request, capacity)

\* Actor::locate, Actor::transit_available
Actor_locate(request, capacity) == Actor_act("locate", request, capacity)
Actor_transit_available(request, capacity) ==
    Actor_act("transit_available", request, capacity)

\* answers handed to the conversion: every declared format, one the enum
\* does not know, a negative one; text, a message, bytes that are neither
DeclaredSamples == RequestFormats \cup {5, -1}
DataSamples ==
    {<<>>, <<123, 125>>, <<8, 1>>, <<10, 2, 123, 125, 8, 1>>, <<255>>, <<10, 5, 1>>,
     <<60, 103, 112, 120, 47, 62>>}
\* requests: each format, accepted by the backend or not, small or large
Requests ==
    [format : RequestFormats, valid : BOOLEAN, encoded_len : {40, 5000}]

InitActor ==
    /\ actIn \in [kind : {"convert"}, format : DeclaredSamples, data : DataSamples]
                 \cup [kind : {"act"}, endpoint : Endpoints, request : Requests]
    /\ actOut = <<>>
    /\ GidIdle /\ LtIdle /\ TileIdle /\ ConcIdle /\ OwnIdle /\ RdIdle

\* Response::from(ffi::Response { data, format })
Convert ==
    /\ actOut = <<>>
    /\ actIn.kind = "convert"
    /\ actOut' = [capacity |-> INPUT_BUFFER_SIZE,
                  result |-> Response_from([format |-> actIn.format, data |-> actIn.data])]
    /\ UNCHANGED <<actIn, notAct>>

\* actor.<endpoint>(&request) on an actor with a fresh buffer
Act ==
    /\ actOut = <<>>
    /\ actIn.kind = "act"
    /\ actOut' = CASE actIn.endpoint = "locate" ->
                          Actor_locate(actIn.request, INPUT_BUFFER_SIZE)
                   [] actIn.endpoint = "transit_available" ->
                          Actor_transit_available(actIn.request, INPUT_BUFFER_SIZE)
                   [] OTHER -> Actor_act(actIn.endpoint, actIn.request, INPUT_BUFFER_SIZE)
    /\ UNCHANGED <<actIn, notAct>>

NextActor == Convert \/ Act

SpecActor == InitActor /\ [][NextActor]_vars

\* the format the backend declared for the answer that was converted
DeclaredOf(in) ==
    IF in.kind = "convert" THEN in.format
    ELSE DeclaredFormat(in.endpoint, in.request.format)
\* the bytes of the answer that was converted
DataOf(in) == IF in.kind = "convert" THEN in.data ELSE AnswerBytes(DeclaredOf(in))

\* C19: the variant of a returned Response follows from the declared format
\* alone: Pbf gives Response::Pbf with the decoded message, Json and Osrm
\* give Response::Json with the bytes as text, every other format gives
\* Response::Other with the bytes unchanged.
C19_VariantFollowsDeclaredFormat ==
    (actOut # <<>> /\ actOut.result.variant \in {"Pbf", "Json", "Other"}) =>
        LET f == DeclaredOf(actIn)
            r == actOut.result
        IN /\ r.variant = "Pbf" <=> f = Format_Pbf
           /\ r.variant = "Json" <=> f \in {Format_Json, Format_Osrm}
           /\ r.variant = "Other" <=> f \notin {Format_Pbf, Format_Json, Format_Osrm}
           /\ r.variant = "Pbf" => r.payload = Api_decode(DataOf(actIn)).value
           /\ r.variant = "Json" =>
                  /\ Len(r.payload) = Len(DataOf(actIn))
                  /\ \A k \in DOMAIN r.payload :
                         r.payload[k] = DataOf(actIn)[k] \/ DataOf(actIn)[k] >= 128
           /\ r.variant = "Other" => r.payload = DataOf(actIn)

\* an answer declared Osrm came back as Json text
C19_Witness ==
    /\ actOut # <<>>
    /\ actIn.kind = "convert"
    /\ actIn.format = Format_Osrm
    /\ actIn.data = <<123, 125>>
    /\ actOut.result = [variant |-> "Json", payload |-> <<123, 125>>]

\* C20: locate and transit_available answer a request the backend accepts
\* with Response::Json whatever format it asks for, and never with
\* Response::Pbf or Response::Other.
C20_LocateAlwaysJson ==
    (/\ actOut # <<>>
     /\ actIn.kind = "act"
     /\ actIn.endpoint \in {"locate", "transit_available"}) =>
        /\ actOut.result.variant \in {"Json", "Err"}
        /\ actIn.request.valid => actOut.result.variant = "Json"

\* locate was asked for Pbf and answered in Json
C20_Witness ==
    /\ actOut # <<>>
    /\ actIn.kind = "act"
    /\ actIn.endpoint = "locate"
    /\ actIn.request.format = Format_Pbf
    /\ actIn.request.valid
    /\ actOut.result.variant = "Json"

\* C29: turning a backend result into a Response never panics, whatever the
\* bytes and the declared format: a Response or an error value comes back
\* also for bytes declared Pbf that do not decode, and for bytes declared
\* Json or Osrm that are not valid UTF-8.
C29_ConversionNeverPanics ==
    (actOut # <<>> /\ actIn.kind \in {"convert", "act"}) =>
        actOut.result.variant \in {"Pbf", "Json", "Other", "Err"}

\* the action/format combinations the backend has no writer for
UnsupportedCells ==
    {<<"centroid", Format_Osrm>>, <<"isochrone", Format_Osrm>>, <<"matrix", Format_Gpx>>}
\* the call was one of those combinations
UnsupportedCall ==
    /\ actOut # <<>>
    /\ actIn.kind = "act"
    /\ <<actIn.endpoint, actIn.request.format>> \in UnsupportedCells

\* C21 as stated: centroid with Osrm, isochrone with Osrm and matrix with Gpx
\* are answered with an Err carrying a BackendError, never with a crash and
\* never with an Ok response.
C21_UnsupportedIsBackendError ==
    UnsupportedCall => actOut.result.variant = "Err"

\* C21 as the code has it: for those combinations a request the backend
\* accepts is answered with Ok(Response::Json), the backend having fallen
\* back to JSON; only a request the backend rejects is answered with Err;
\* there is no crash and no other variant.
C21_UnsupportedFallsBackToJson ==
    UnsupportedCall =>
        /\ actIn.request.valid => actOut.result.variant = "Json"
        /\ ~actIn.request.valid => actOut.result.variant = "Err"

\* matrix was asked for Gpx and answered Ok with JSON text
C21_Witness ==
    /\ UnsupportedCall
    /\ actIn.endpoint = "matrix"
    /\ actIn.request.format = Format_Gpx
    /\ actIn.request.valid
    /\ actOut.result = [variant |-> "Json", payload |-> <<123, 125>>]

---------------------------------------------------------------------------
(* Actor: parse_json_request                                               *)

\* proto::options::Action, the actions parse_json_request is called for
Actions ==
    {"Route", "Locate", "Matrix", "OptimizedRoute", "Isochrone", "TraceRoute",
     "TraceAttributes", "TransitAvailable", "Expansion", "Centroid", "Status"}

\* the nesting depth after each character of a text made of "{", "}" and
\* "x" (a member); -1 once the text has closed more than it opened or has
\* gone on after its object was closed
RECURSIVE Depth(_, _, _)
Depth(json, k, depth) ==
    IF k > Len(json) THEN depth
    ELSE IF depth < 0 \/ (depth = 0 /\ k > 1) THEN -1
    ELSE IF json[k] = "{" THEN Depth(json, k + 1, depth + 1)
    ELSE IF json[k] = "}" THEN Depth(json, k + 1, depth - 1)
    ELSE IF depth = 0 THEN -1
    ELSE Depth(json, k + 1, depth)
\* the text is one JSON object
WellFormed(json) == json # <<>> /\ Depth(json, 1, 0) = 0

\* ffi::parse_json_request: the backend's parser. It throws on text that is
\* not JSON; the empty string is special to it and is taken for a request
\* without options. The Options it serializes have ignore_closures set,
\* to the request's value or to the default false.
ffi_parse_json_request(json, action) ==
    IF json = <<>> \/ WellFormed(json)
    THEN [ok |-> TRUE, decodes |-> TRUE,
          options |-> [action |-> action,
                       ignore_closures |-> Some(\E k \in DOMAIN json : json[k] = "x")]]
    ELSE [ok |-> FALSE, decodes |-> FALSE, options |-> <<>>]

\* a parse_json_request without the check for the empty string
Actor_parse_json_request_unchecked(json, action) ==
    LET cxx_string == ffi_parse_json_request(json, action)
    IN IF ~cxx_string.ok \/ ~cxx_string.decodes
       THEN [variant |-> "Err", payload |-> <<>>, parser_called |-> TRUE]
       ELSE [variant |-> "Options",
             payload |-> IF cxx_string.options.ignore_closures = Some(FALSE)
                         THEN [cxx_string.options EXCEPT !.ignore_closures = None]
                         ELSE cxx_string.options,
             parser_called |-> TRUE]

\* Actor::parse_json_request: an error for the empty string before anything
\* else, the backend's exception or a decoding failure as an error, and
\* otherwise the Options with an ignore_closures of false cleared
Actor_parse_json_request(json, action) ==
    IF json = <<>>
    THEN [variant |-> "Err", payload |-> <<>>, parser_called |-> FALSE]
    ELSE LET cxx_string == ffi_parse_json_request(json, action)
         IN IF ~cxx_string.ok \/ ~cxx_string.decodes
            THEN [variant |-> "Err", payload |-> <<>>, parser_called |-> TRUE]
            ELSE [variant |-> "Options",
                  payload |-> IF cxx_string.options.ignore_closures = Some(FALSE)
                              THEN [cxx_string.options EXCEPT !.ignore_closures = None]
                              ELSE cxx_string.options,
                  parser_called |-> TRUE]

\* texts handed to the parser: the three of the unit test ("", "{", "}"),
\* objects with and without members, and text around an object
JsonSamples ==
    {<<>>, <<"{">>, <<"}">>, <<"{", "}">>, <<"{", "x", "}">>, <<"{", "{", "}", "}">>,
     <<"}", "{">>, <<"{", "}", "{", "}">>, <<"{", "x">>, <<"x">>,
     <<"{", "x", "{", "x", "}", "}">>}

InitParse ==
    /\ actIn \in [kind : {"parse"}, json : JsonSamples, action : Actions]
    /\ actOut = <<>>
    /\ GidIdle /\ LtIdle /\ TileIdle /\ ConcIdle /\ OwnIdle /\ RdIdle

\* Actor::parse_json_request(json, action)
ParseJsonRequest ==
    /\ actOut = <<>>
    /\ actIn.kind = "parse"
    /\ actOut' = [capacity |-> INPUT_BUFFER_SIZE,
                  result |-> Actor_parse_json_request(actIn.json, actIn.action)]
    /\ UNCHANGED <<actIn, notAct>>

NextParse == ParseJsonRequest

SpecParse == InitParse /\ [][NextParse]_vars

\* C22: parse_json_request returns an error for the empty string, for every
\* action and without calling the backend parser, and returns an error for
\* text that is not well-formed JSON.
C22_EmptyAndMalformedRejected ==
    (actOut # <<>> /\ actIn.kind = "parse") =>
        /\ actIn.json = <<>> =>
               /\ actOut.result.variant = "Err"
               /\ ~actOut.result.parser_called
        /\ (actIn.json # <<>> /\ ~WellFormed(actIn.json)) =>
               actOut.result.variant = "Err"

\* the empty string was rejected for the Route action, unparsed
C22_Witness ==
    /\ actOut # <<>>
    /\ actIn = [kind |-> "parse", json |-> <<>>, action |-> "Route"]
    /\ actOut.result = [variant |-> "Err", payload |-> <<>>, parser_called |-> FALSE]

===========================================================================
